---- MODULE Spec2Model ----
(***************************************************************************)
(* codescope: incremental indexing of a project tree into a vector store.  *)
(*                                                                         *)
(* The model covers the Indexing Orchestrator (indexer.py), the Change     *)
(* Detector (file_hashes.py), the store wrapper (store.py), the chunker    *)
(* with its Semantic and Window Splitters (chunker.py) and the session     *)
(* tracker (session.py).                                                   *)
(*                                                                         *)
(* Spec is index_project run after run on a tree edited between the runs.  *)
(* SpecDiff is the registry alone: load and diff call by call, with files  *)
(* vanishing meanwhile and a registry file that may be malformed.          *)
(* SpecConfig is index_project under any max_chunk_lines / chunk_overlap.  *)
(* SpecSession is take_snapshot, compute_diff and clear_snapshot.          *)
(* SpecWindow, SpecChunk and SpecIds apply _sliding_window, chunk_file and *)
(* the id loop of _embed_and_store once to each input of a bounded set.    *)
(*                                                                         *)
(* A path is a natural number; the order of the numbers is the sorted      *)
(* order of the project-relative path strings.  A file content is a        *)
(* natural number c standing for a text of 2*c distinct lines.  SHA-256 is *)
(* modelled as collision free: a digest determines the content.            *)
(***************************************************************************)
EXTENDS Integers, Sequences, FiniteSets, TLC

\* ------------------------------------------------------------------ bounds
NumContents == 2
MaxMtime == 2
\* config.max_chunk_lines and config.chunk_overlap, scaled down
MaxChunkLines == 3
ChunkOverlap == 1
\* the longest text handed to _sliding_window on its own
MaxWindowLines == 7
\* the longest source file handed to chunk_file on its own, and the most
\* children the root of its parse tree has
MaxSourceLines == 4
MaxChildren == 3
\* the most chunks in a batch handed to _embed_and_store on its own
MaxBatch == 3
MaxCalls == 2

\* two files of the project tree (say "a.txt" < "b.txt")
Paths == {1, 2}
Contents == 1..NumContents
Mtimes == 1..MaxMtime

\* ------------------------------------------------------------- file system
\* The state of one path on disk.  A path that does not exist is NoFile.
NoFile == [exists |-> FALSE, content |-> 0, mtime |-> 0, readable |-> FALSE]

FileState(c, m, r) == [exists |-> TRUE, content |-> c, mtime |-> m, readable |-> r]

FileStates == {NoFile} \cup {FileState(c, m, r) : c \in Contents, m \in Mtimes, r \in BOOLEAN}

\* hashlib.sha256(content).hexdigest(): a digest per content, no collisions
Sha256(c) == 1000 + c

\* the results Python reports for a failed call
None == 0 - 1
OSError == 0 - 2

\* file.stat().st_mtime: raises OSError when the path is gone
Stat(disk, p) == IF disk[p].exists THEN disk[p].mtime ELSE OSError

\* path.read_bytes() / path.read_text(): OSError when gone or not permitted
CanRead(disk, p) == disk[p].exists /\ disk[p].readable

_hash_file(disk, p) == IF CanRead(disk, p) THEN Sha256(disk[p].content) ELSE None

\* text.splitlines(keepends=True) of content c: 2*c lines, line i is <<c, i>>
FileLines(c) == [i \in 1..(2 * c) |-> <<c, i>>]

\* ---------------------------------------------------------------- helpers
Min(a, b) == IF a < b THEN a ELSE b

RECURSIVE SortedSeq(_)
\* sorted(S) for a finite set of numbers
SortedSeq(S) ==
  IF S = {} THEN <<>>
  ELSE LET m == CHOOSE x \in S : \A y \in S : x <= y
       IN <<m>> \o SortedSeq(S \ {m})

Range(s) == {s[i] : i \in 1..Len(s)}

\* lines[a:b] of Python, a and b 0-indexed, b exclusive
\* a slice of the right length taken from the start of the list
SliceFromStart(lines, a, b) == SubSeq(lines, 1, b - a)

Slice(lines, a, b) == SubSeq(lines, a + 1, b)

\* ---------------------------------------------------------------- chunker
NoSymbol == "<none>"
NoLanguage == "<none>"

Chunk(file_path, start_line, end_line, content, language, symbol) ==
  [file_path |-> file_path, start_line |-> start_line, end_line |-> end_line,
   content |-> content, language |-> language, symbol |-> symbol]

RECURSIVE SlidingLoop(_, _, _, _, _, _, _, _)
\* the while loop of _sliding_window, from index i with the chunks so far
SlidingLoop(lines, offset, max_lines, overlap, language, symbol, i, chunks) ==
  IF i < Len(lines)
  THEN LET end == Min(i + max_lines, Len(lines))
           c == Chunk("", offset + i + 1, offset + end, Slice(lines, i, end),
                      language, IF i = 0 THEN symbol ELSE NoSymbol)
           next == IF end < Len(lines) THEN end - overlap ELSE end
       IN SlidingLoop(lines, offset, max_lines, overlap, language, symbol,
                      next, Append(chunks, c))
  ELSE chunks

\* _sliding_window that steps by max_lines whatever the overlap
SlidingWindowNoOverlap(lines, offset, max_lines, overlap, language, symbol) ==
  SlidingLoop(lines, offset, max_lines, 0, language, symbol, 0, <<>>)

\* _sliding_window with symbol=symbol on every chunk instead of
\* symbol if i == 0 else None
SlidingWindowAllNamed(lines, offset, max_lines, overlap, language, symbol) ==
  LET r == SlidingLoop(lines, offset, max_lines, overlap, language, symbol, 0, <<>>)
  IN [i \in 1..Len(r) |-> [r[i] EXCEPT !.symbol = symbol]]

_sliding_window(lines, offset, max_lines, overlap, language, symbol) ==
  SlidingLoop(lines, offset, max_lines, overlap, language, symbol, 0, <<>>)

\* A source file as chunk_file meets it: whether it can be read, its lines,
\* what becomes of its grammar ("none": the extension is not in
\* EXTENSION_TO_LANGUAGE; "load_fails": _get_parser gets an exception;
\* "parse_throws": parser.parse raises; "no_semantic_types": the language has
\* no entry in SEMANTIC_NODE_TYPES; "parsed"), and the children of the root
\* node of its parse tree, each with its type being in the semantic set or
\* not, its first and last row (0-indexed) and what _get_node_name returns.
Source(readable, lines, grammar, children) ==
  [readable |-> readable, lines |-> lines, grammar |-> grammar, children |-> children]

\* a line of white space only
BlankLine == <<0, 0>>

\* the test of the first line only
IsBlankFirstLine(lines) == lines = <<>> \/ lines[1] = BlankLine

\* not "".join(lines).strip()
IsBlank(lines) == \A i \in 1..Len(lines) : lines[i] = BlankLine

\* the language name of EXTENSION_TO_LANGUAGE
LanguageOf(grammar) == IF grammar = "none" THEN NoLanguage ELSE "lang"

\* _node_to_chunk that keeps the 0-indexed rows of the node as line numbers
NodeToChunkZeroIndexed(node, lines, language) ==
  Chunk("", node.start, node.end, Slice(lines, node.start, node.end + 1),
        language, node.name)

_node_to_chunk(node, lines, language) ==
  Chunk("", node.start + 1, node.end + 1, Slice(lines, node.start, node.end + 1),
        language, node.name)

RECURSIVE ChildrenLoopAdvancing(_, _, _, _, _, _, _)
\* the loop over root.children with last_end = child_end + 1 moved out of the
\* branch of the semantic types, so that every child advances last_end
ChildrenLoopAdvancing(lines, children, k, max_lines, overlap, language, st) ==
  IF k > Len(children) THEN st
  ELSE LET child == children[k]
           gap_content == Slice(lines, st.last_end, child.start)
           gap == IF child.start > st.last_end /\ st.last_end < Len(lines)
                     /\ ~IsBlank(gap_content)
                    THEN <<Chunk("", st.last_end + 1, child.start, gap_content,
                                 language, NoSymbol)>>
                    ELSE <<>>
           node == IF child.end - child.start + 1 <= max_lines
                     THEN <<_node_to_chunk(child, lines, language)>>
                     ELSE _sliding_window(Slice(lines, child.start, child.end + 1),
                                          child.start, max_lines, overlap, language,
                                          child.name)
       IN ChildrenLoopAdvancing(lines, children, k + 1, max_lines, overlap, language,
                                [chunks |-> IF child.semantic THEN st.chunks \o gap \o node
                                                              ELSE st.chunks,
                                 last_end |-> child.end + 1])

RECURSIVE ChildrenLoop(_, _, _, _, _, _, _)
\* for child in root.children: ..., from child k with st = the chunks so far
\* and last_end
ChildrenLoop(lines, children, k, max_lines, overlap, language, st) ==
  IF k > Len(children) THEN st
  ELSE LET child == children[k]
           child_start == child.start
           child_end == child.end
           node_lines == child_end - child_start + 1
           gap_content == Slice(lines, st.last_end, child_start)
           gap == IF child_start > st.last_end /\ st.last_end < Len(lines)
                     /\ ~IsBlank(gap_content)
                    THEN <<Chunk("", st.last_end + 1, child_start, gap_content,
                                 language, NoSymbol)>>
                    ELSE <<>>
           node == IF node_lines <= max_lines
                     THEN <<_node_to_chunk(child, lines, language)>>
                     ELSE _sliding_window(Slice(lines, child_start, child_end + 1),
                                          child_start, max_lines, overlap, language,
                                          child.name)
       IN IF child.semantic
            THEN ChildrenLoop(lines, children, k + 1, max_lines, overlap, language,
                              [chunks |-> st.chunks \o gap \o node,
                               last_end |-> child_end + 1])
            ELSE ChildrenLoop(lines, children, k + 1, max_lines, overlap, language, st)

\* _chunk_with_treesitter without the capture of the trailing content
ChunkWithTreesitterNoTrailing(src, max_lines, overlap) ==
  IF src.grammar \in {"load_fails", "parse_throws", "no_semantic_types"} THEN <<>>
  ELSE ChildrenLoop(src.lines, src.children, 1, max_lines, overlap,
                    LanguageOf(src.grammar), [chunks |-> <<>>, last_end |-> 0]).chunks

\* _chunk_with_treesitter; its None is the empty sequence, which it never
\* returns otherwise (return chunks if chunks else None)
_chunk_with_treesitter(src, max_lines, overlap) ==
  IF src.grammar \in {"load_fails", "parse_throws", "no_semantic_types"} THEN <<>>
  ELSE LET language == LanguageOf(src.grammar)
           st == ChildrenLoop(src.lines, src.children, 1, max_lines, overlap, language,
                              [chunks |-> <<>>, last_end |-> 0])
           trailing == Slice(src.lines, st.last_end, Len(src.lines))
       IN IF st.last_end < Len(src.lines) /\ ~IsBlank(trailing)
            THEN Append(st.chunks, Chunk("", st.last_end + 1, Len(src.lines), trailing,
                                         language, NoSymbol))
            ELSE st.chunks

\* chunk_file that lets the OSError of read_text through
ChunkSourceNoCatch(src, max_lines, overlap) ==
  IF ~src.readable THEN [raised |-> "OSError", chunks |-> <<>>]
  ELSE [raised |-> "none",
        chunks |-> _sliding_window(src.lines, 0, max_lines, overlap, NoLanguage, NoSymbol)]

\* chunk_file whose fallback is not reached: what the tree gave is returned
ChunkSourceNoFallback(src, max_lines, overlap) ==
  [raised |-> "none",
   chunks |-> IF ~src.readable \/ src.lines = <<>> \/ src.grammar = "none" THEN <<>>
              ELSE _chunk_with_treesitter(src, max_lines, overlap)]

\* chunk_file: the chunks it returns and the exception that escapes it
chunk_source(src, max_lines, overlap) ==
  IF ~src.readable THEN [raised |-> "none", chunks |-> <<>>]
  ELSE IF src.lines = <<>> THEN [raised |-> "none", chunks |-> <<>>]
  ELSE LET ts_chunks == IF src.grammar # "none"
                          THEN _chunk_with_treesitter(src, max_lines, overlap)
                          ELSE <<>>
       IN [raised |-> "none",
           chunks |-> IF ts_chunks # <<>> THEN ts_chunks
                      ELSE _sliding_window(src.lines, 0, max_lines, overlap,
                                           NoLanguage, NoSymbol)]

\* chunk_file for a file of the tree: its extension has no registered grammar
chunk_file(disk, p, max_lines, overlap) ==
  chunk_source(Source(CanRead(disk, p), FileLines(disk[p].content), "none", <<>>),
               max_lines, overlap).chunks

\* the while loop of _sliding_window ends: the input fits one window, or
\* i = end - overlap moves forward
_sliding_window_returns(lines, max_lines, overlap) ==
  Len(lines) <= max_lines \/ overlap < max_lines

\* the call chunk_file(f, max_lines, overlap) returns
chunk_file_returns(disk, p, max_lines, overlap) ==
  CanRead(disk, p) => _sliding_window_returns(FileLines(disk[p].content), max_lines, overlap)

\* the (max_lines, overlap) pairs chunk_file passes to _sliding_window
chunk_file_windows(disk, p, max_lines, overlap) ==
  IF CanRead(disk, p) /\ FileLines(disk[p].content) # <<>>
    THEN {[max_lines |-> max_lines, overlap |-> overlap]}
    ELSE {}

\* for c in chunks: c.file_path = rel
Stamp(chunks, rel) == [i \in 1..Len(chunks) |-> [chunks[i] EXCEPT !.file_path = rel]]

\* ------------------------------------------------------------ vector store
\* One stored item: its id, its document and its metadata.  An id is the raw
\* identifier "<file_path>:<start_line>-<end_line>" (the triple raw) and the
\* number n of the suffix "#n"; n = 0 is the unsuffixed identifier.
ChunkId(c) == <<c.file_path, c.start_line, c.end_line>>

\* seen.get(raw_id, 0) when chunks[i] is reached: earlier chunks with its raw id
SeenCount(chunks, i) == Cardinality({j \in 1..(i - 1) : ChunkId(chunks[j]) = ChunkId(chunks[i])})

RECURSIVE IdsLoop(_, _, _, _)
\* for raw_id in raw_ids: count = seen.get(raw_id, 0); ids.append(...);
\* seen[raw_id] = count + 1, from raw_ids[i] on
IdsLoop(raw_ids, i, seen, ids) ==
  IF i > Len(raw_ids) THEN ids
  ELSE LET raw_id == raw_ids[i]
           count == IF raw_id \in DOMAIN seen THEN seen[raw_id] ELSE 0
       IN IdsLoop(raw_ids, i + 1, (raw_id :> count + 1) @@ seen,
                  Append(ids, [raw |-> raw_id, n |-> count]))

\* ids without the suffix: every chunk keeps its raw id
UniqueIdsNoSuffix(chunks) ==
  [i \in 1..Len(chunks) |-> [raw |-> ChunkId(chunks[i]), n |-> 0]]

\* ids of _embed_and_store: f"{raw_id}#{count}" if count > 0 else raw_id
UniqueIds(chunks) ==
  IdsLoop([i \in 1..Len(chunks) |-> ChunkId(chunks[i])], 1, << >>, <<>>)

Metadata(c) ==
  [file_path |-> c.file_path, start_line |-> c.start_line, end_line |-> c.end_line,
   language |-> c.language, symbol |-> c.symbol]

\* collection.upsert(ids, documents, metadatas): a later item replaces an
\* earlier one with the same id
Upsert(coll, ids, documents, metadatas) ==
  LET n == Len(ids)
      Last(i) == \A j \in (i + 1)..n : ids[j] # ids[i]
      new == {[id |-> ids[i], document |-> documents[i], metadata |-> metadatas[i]] :
                i \in {k \in 1..n : Last(k)}}
  IN {it \in coll : it.id \notin Range(ids)} \cup new

\* _embed_and_store: both providers end in one upsert of the same items
_embed_and_store(coll, chunks) ==
  Upsert(coll, UniqueIds(chunks),
         [i \in 1..Len(chunks) |-> chunks[i].content],
         [i \in 1..Len(chunks) |-> Metadata(chunks[i])])

\* delete_by_file that deletes nothing
DeleteNothing(coll, file_path) == coll

\* VectorStore.delete_by_file: collection.delete(where={"file_path": file_path})
delete_by_file(coll, file_path) == {it \in coll : it.metadata.file_path # file_path}

\* clear that leaves the collection as it is
ClearNothing(coll) == coll

\* VectorStore.clear: the collection is deleted and created again
clear(coll) == {}

\* ----------------------------------------------------------- hash registry
Entry(h, m) == [hash |-> h, mtime |-> m]

\* DiffFile with the comparison of the content hash left out: a file whose
\* mtime moved is reported as changed
DiffFileNoHashCompare(acc, p, st1, h, st2) ==
  LET stored == p \in DOMAIN acc.hashes
      read == [acc EXCEPT !.hashed = Append(@, p)]
  IN IF stored /\ st1 = OSError
       THEN [acc EXCEPT !.changed = Append(@, p)]
     ELSE IF stored /\ st1 = acc.hashes[p].mtime
       THEN acc
     ELSE IF h = None
       THEN read
     ELSE [read EXCEPT !.changed = Append(@, p)]

\* DiffFile without the mtime fast path: every file is hashed
DiffFileNoFastPath(acc, p, st1, h, st2) ==
  LET stored == p \in DOMAIN acc.hashes
      read == [acc EXCEPT !.hashed = Append(@, p)]
  IN IF stored /\ st1 = OSError
       THEN [acc EXCEPT !.changed = Append(@, p)]
     ELSE IF h = None
       THEN read
     ELSE IF stored /\ acc.hashes[p].hash = h
       THEN IF st2 = OSError THEN read
            ELSE [read EXCEPT !.hashes[p].mtime = st2]
     ELSE [read EXCEPT !.changed = Append(@, p)]

\* DiffFile that does not refresh the stored mtime of an identical file
DiffFileNoRefresh(acc, p, st1, h, st2) ==
  LET stored == p \in DOMAIN acc.hashes
      read == [acc EXCEPT !.hashed = Append(@, p)]
  IN IF stored /\ st1 = OSError
       THEN [acc EXCEPT !.changed = Append(@, p)]
     ELSE IF stored /\ st1 = acc.hashes[p].mtime
       THEN acc
     ELSE IF h = None
       THEN read
     ELSE IF stored /\ acc.hashes[p].hash = h
       THEN read
     ELSE [read EXCEPT !.changed = Append(@, p)]

\* an iteration of diff that records what it hashed, as update does
DiffFileRecording(acc, p, st1, h, st2) ==
  IF h = None \/ st1 = OSError THEN acc
  ELSE [changed |-> Append(acc.changed, p),
        hashes |-> (p :> Entry(h, st1)) @@ acc.hashes,
        hashed |-> Append(acc.hashed, p)]

\* one iteration of the loop of FileHashRegistry.diff for file p; st1, h and
\* st2 are what file.stat(), _hash_file(file) and the second file.stat() give.
\* acc.hashed lists the files on which _hash_file has been called.
DiffFile(acc, p, st1, h, st2) ==
  LET stored == p \in DOMAIN acc.hashes
      read == [acc EXCEPT !.hashed = Append(@, p)]
  IN IF stored /\ st1 = OSError
       THEN [acc EXCEPT !.changed = Append(@, p)]
     ELSE IF stored /\ st1 = acc.hashes[p].mtime
       THEN acc
     ELSE IF h = None
       THEN read
     ELSE IF stored /\ acc.hashes[p].hash = h
       THEN IF st2 = OSError THEN read
            ELSE [read EXCEPT !.hashes[p].mtime = st2]
     ELSE [read EXCEPT !.changed = Append(@, p)]

RECURSIVE DiffLoop(_, _, _, _)
\* for file in files: ... with every call answered by the tree as it is
DiffLoop(acc, fl, i, disk) ==
  IF i > Len(fl) THEN acc
  ELSE DiffLoop(DiffFile(acc, fl[i], Stat(disk, fl[i]), _hash_file(disk, fl[i]),
                         Stat(disk, fl[i])),
                fl, i + 1, disk)

RECURSIVE Reverse(_)
Reverse(sq) == IF sq = <<>> THEN <<>> ELSE Append(Reverse(Tail(sq)), Head(sq))

\* DiffDeleted without sorted(): the set difference in some other order
DiffDeletedUnsorted(reg, fl) == Reverse(SortedSeq(DOMAIN reg \ Range(fl)))

\* deleted = sorted(stored_paths - current_rel_paths)
DiffDeleted(reg, fl) == SortedSeq(DOMAIN reg \ Range(fl))

\* FileHashRegistry.diff: the FileDiff, the registry as diff leaves it, and
\* the files it hashed
diff(reg, fl, disk) ==
  LET acc == DiffLoop([changed |-> <<>>, hashes |-> reg, hashed |-> <<>>], fl, 1, disk)
  IN [changed |-> acc.changed, deleted |-> DiffDeleted(acc.hashes, fl),
      hashes |-> acc.hashes, hashed |-> acc.hashed]

\* update that keeps an entry that is already there (setdefault)
UpdateKeepsEntry(reg, p, disk) ==
  LET h == _hash_file(disk, p)
      st == Stat(disk, p)
  IN IF h = None \/ p \in DOMAIN reg THEN reg
     ELSE (p :> Entry(h, IF st = OSError THEN 0 ELSE st)) @@ reg

\* FileHashRegistry.update
update(reg, p, disk) ==
  LET h == _hash_file(disk, p)
      st == Stat(disk, p)
  IN IF h = None THEN reg
     ELSE (p :> Entry(h, IF st = OSError THEN 0 ELSE st)) @@ reg

\* remove that drops nothing
RemoveNothing(reg, p) == reg

\* FileHashRegistry.remove: self._hashes.pop(rel_path, None)
remove(reg, p) == [q \in DOMAIN reg \ {p} |-> reg[q]]

\* collect_files: the existing files of the project, sorted
collect_files(disk) == SortedSeq({p \in Paths : disk[p].exists})

\* ------------------------------------------------------------------ state
VARIABLES
  fs,             \* the project tree: path -> state of the file on disk
  hashes_file,    \* .codescope/file_hashes.json: the persisted registry
  collection,     \* the items of the vector store
  pc,             \* where index_project is: "idle", "full", "purge", "chunk",
                  \* or "done" when it has returned its IndexResult
  mode,           \* "full" or "incremental" while a run is in progress
  files,          \* index_project: files = collect_files(config)
  hashes,         \* FileHashRegistry._hashes of the run in progress
  diff_changed,   \* _incremental_index: diff.changed
  diff_deleted,   \* _incremental_index: diff.deleted
  diff_hashed,    \* the files registry.diff called _hash_file on
  todo,           \* the files the chunking loop has not reached yet
  all_chunks,     \* the chunks collected by the chunking loop
  result,         \* the IndexResult the run returned
  ops,            \* the store calls the run has issued, in order
  removed,        \* paths whose stored items the run has removed
  streak,         \* completed incremental runs (at most 2 counted) since the
                  \* tree last changed, a full run started or a run was
                  \* abandoned
  lost,           \* paths whose items were removed by the runs abandoned
                  \* since the last completed run
  config,         \* CodeScopeConfig: max_chunk_lines and chunk_overlap
  window_calls,   \* the (max_lines, overlap) pairs the run has passed to
                  \* _sliding_window
  saves,          \* calls of registry.save() the run has made
  registry_calls, \* the calls of registry.update and registry.remove the
                  \* run has made, in order
  hashes_form,    \* what file_hashes.json holds: "mapping" (or no file),
                  \* "invalid_json", "bad_encoding" or "not_mapping"
  observed,       \* what each iteration of the loop of diff got from the
                  \* file system, in order
  error,          \* the exception that escaped the operation, or "none"
  parser_cache,   \* chunker._parser_cache: the languages with a loaded parser
  snapshot_file,  \* .codescope/session_snapshot.json
  session_diff,   \* what the last compute_diff returned
  input,          \* the arguments of the function applied on its own
  output          \* what it returned

index_vars ==
  <<fs, hashes_file, collection, pc, mode, files, hashes, diff_changed,
          diff_deleted, diff_hashed, todo, all_chunks, result, ops, removed, streak, lost>>

\* the variables the orchestrator of Spec never touches
other_vars ==
  <<hashes_form, observed, error, parser_cache, snapshot_file, session_diff, input, output>>

vars == <<index_vars, config, window_calls, saves, registry_calls, other_vars>>

IndexResult(chunks_indexed, files_changed, files_deleted, files_unchanged) ==
  [chunks_indexed |-> chunks_indexed, files_changed |-> files_changed,
   files_deleted |-> files_deleted, files_unchanged |-> files_unchanged]

NoResult == IndexResult(None, None, None, None)

\* paths that have at least one item in the store
StoredPaths(coll) == {it.metadata.file_path : it \in coll}

\* FileHashRegistry._load: what self._hashes becomes and the exception that
\* gets out of it.  A missing file leaves the registry empty; JSONDecodeError
\* and OSError are caught; the UnicodeDecodeError of read_text is neither;
\* JSON that is no object (here the list []) is kept as it is.
_load(form, persisted) ==
  IF form = "mapping" THEN [raised |-> "none", hashes |-> persisted]
  ELSE IF form = "invalid_json" THEN [raised |-> "none", hashes |-> << >>]
  ELSE IF form = "bad_encoding" THEN [raised |-> "UnicodeDecodeError", hashes |-> << >>]
  ELSE [raised |-> "none", hashes |-> << >>]

\* save that writes nothing
SaveNothing(persisted, reg) == persisted

\* FileHashRegistry.save: the file is overwritten with json.dumps(_hashes)
save(persisted, reg) == reg

\* no run in progress: nothing of a run is in memory
NoRunInMemory ==
  /\ mode = "none"
  /\ files = <<>>
  /\ hashes = << >>
  /\ diff_changed = <<>>
  /\ diff_deleted = <<>>
  /\ diff_hashed = <<>>
  /\ todo = <<>>
  /\ all_chunks = <<>>
  /\ result = NoResult
  /\ ops = <<>>
  /\ removed = {}
  /\ window_calls = {}
  /\ saves = 0
  /\ registry_calls = <<>>

\* the process of a run ends: what it held in memory is gone
ForgetRun ==
  /\ mode' = "none"
  /\ files' = <<>>
  /\ hashes' = << >>
  /\ diff_changed' = <<>>
  /\ diff_deleted' = <<>>
  /\ diff_hashed' = <<>>
  /\ todo' = <<>>
  /\ all_chunks' = <<>>
  /\ result' = NoResult
  /\ ops' = <<>>
  /\ removed' = {}
  /\ window_calls' = {}
  /\ saves' = 0
  /\ registry_calls' = <<>>

\* the function applied on its own has not returned
NoOutput == [returned |-> FALSE, value |-> <<>>]

\* no registry file damaged, no session, no function applied on its own
NothingElse ==
  /\ hashes_form = "mapping"
  /\ observed = <<>>
  /\ error = "none"
  /\ parser_cache = {}
  /\ snapshot_file = [form |-> "absent", data |-> << >>]
  /\ session_diff = "none"
  /\ input = "none"
  /\ output = NoOutput

Init ==
  /\ fs \in [Paths -> FileStates]
  /\ hashes_file = << >>
  /\ collection = {}
  /\ pc = "idle"
  /\ NoRunInMemory
  /\ streak = 0
  /\ lost = {}
  /\ config = [max_chunk_lines |-> MaxChunkLines, chunk_overlap |-> ChunkOverlap]
  /\ NothingElse

\* ------------------------------------------------------------ environment
\* Anything outside the indexer that changes one file of the tree: create,
\* edit, touch, chmod or delete.  Runs are serialized with the editor here.
EnvChange ==
  /\ pc = "idle"
  /\ \E p \in Paths, st \in FileStates :
       /\ st # fs[p]
       /\ fs' = [fs EXCEPT ![p] = st]
  /\ streak' = 0
  /\ UNCHANGED <<hashes_file, collection, pc, mode, files, hashes, diff_changed,
                 diff_deleted, diff_hashed, todo, all_chunks, result, ops, removed, lost>>
  /\ UNCHANGED <<config, window_calls, saves, registry_calls, other_vars>>

\* ------------------------------------------------------------ index_project
\* index_project(full=True) up to the call of _full_index
StartFull ==
  /\ pc = "idle"
  /\ mode' = "full"
  /\ hashes_form = "mapping"
  /\ hashes' = _load(hashes_form, hashes_file).hashes
  /\ files' = collect_files(fs)
  /\ collection' = clear(collection)
  /\ ops' = <<[op |-> "clear", arg |-> 0]>>
  /\ removed' = StoredPaths(collection)
  /\ todo' = collect_files(fs)
  /\ pc' = "full"
  /\ streak' = 0
  /\ UNCHANGED <<fs, hashes_file, diff_changed, diff_deleted, diff_hashed, all_chunks, result, lost>>
  /\ UNCHANGED <<config, window_calls, saves, registry_calls, other_vars>>

\* one iteration of the loop of _full_index
FullChunk ==
  /\ pc = "full"
  /\ todo # <<>>
  /\ chunk_file_returns(fs, Head(todo), config.max_chunk_lines, config.chunk_overlap)
  /\ LET f == Head(todo)
         chunks == Stamp(chunk_file(fs, f, config.max_chunk_lines, config.chunk_overlap), f)
     IN /\ all_chunks' = all_chunks \o chunks
        /\ hashes' = update(hashes, f, fs)
        /\ registry_calls' = Append(registry_calls, [op |-> "update", arg |-> f])
        /\ window_calls' = window_calls \cup
             chunk_file_windows(fs, f, config.max_chunk_lines, config.chunk_overlap)
  /\ todo' = Tail(todo)
  /\ UNCHANGED <<fs, hashes_file, collection, pc, mode, files, diff_changed,
                 diff_deleted, diff_hashed, result, ops, removed, streak, lost>>
  /\ UNCHANGED <<config, saves, other_vars>>

\* the end of _full_index: embed and store, save the registry, return
FullFinish ==
  /\ pc = "full"
  /\ todo = <<>>
  /\ IF all_chunks # <<>>
       THEN /\ collection' = _embed_and_store(collection, all_chunks)
            /\ ops' = Append(ops, [op |-> "upsert", arg |-> Len(all_chunks)])
       ELSE UNCHANGED <<collection, ops>>
  /\ hashes_file' = save(hashes_file, hashes)
  /\ result' = IF files = <<>> THEN IndexResult(0, 0, 0, 0)
               ELSE IndexResult(Len(all_chunks), Len(files), 0, 0)
  /\ pc' = "done"
  /\ UNCHANGED <<fs, mode, files, hashes, diff_changed, diff_deleted, diff_hashed, todo,
                 all_chunks, removed, streak, lost>>
  /\ saves' = saves + 1
  /\ UNCHANGED <<config, window_calls, registry_calls, other_vars>>

\* index_project(full=False) that goes on to chunk every candidate, not only
\* diff.changed
StartIncrementalAll ==
  /\ pc = "idle"
  /\ hashes_form = "mapping"
  /\ mode' = "incremental"
  /\ LET fl == collect_files(fs)
         d == diff(_load(hashes_form, hashes_file).hashes, fl, fs)
     IN /\ files' = fl
        /\ hashes' = d.hashes
        /\ diff_changed' = d.changed
        /\ diff_deleted' = d.deleted
        /\ diff_hashed' = d.hashed
        /\ todo' = fl
  /\ pc' = "purge"
  /\ UNCHANGED <<fs, hashes_file, collection, all_chunks, result, ops, removed,
                 streak, lost>>
  /\ UNCHANGED <<config, window_calls, saves, registry_calls, other_vars>>

\* index_project(full=False) through registry.diff and the counts
StartIncremental ==
  /\ pc = "idle"
  /\ hashes_form = "mapping"
  /\ mode' = "incremental"
  /\ LET fl == collect_files(fs)
         d == diff(_load(hashes_form, hashes_file).hashes, fl, fs)
     IN /\ files' = fl
        /\ hashes' = d.hashes
        /\ diff_changed' = d.changed
        /\ diff_deleted' = d.deleted
        /\ diff_hashed' = d.hashed
        /\ todo' = d.changed
  /\ pc' = "purge"
  /\ UNCHANGED <<fs, hashes_file, collection, all_chunks, result, ops, removed,
                 streak, lost>>
  /\ UNCHANGED <<config, window_calls, saves, registry_calls, other_vars>>

RECURSIVE PurgeLoop(_, _)
\* for rel_path in diff.deleted: store.delete_by_file; registry.remove
PurgeLoop(st, dl) ==
  IF dl = <<>> THEN st
  ELSE PurgeLoop([coll |-> delete_by_file(st.coll, Head(dl)),
                  reg |-> remove(st.reg, Head(dl)),
                  ops |-> Append(st.ops, [op |-> "delete", arg |-> Head(dl)]),
                  calls |-> Append(st.calls, [op |-> "remove", arg |-> Head(dl)])],
                 Tail(dl))

\* the clean-up loop of _incremental_index
IncrPurge ==
  /\ pc = "purge"
  /\ LET st == PurgeLoop([coll |-> collection, reg |-> hashes, ops |-> ops,
                          calls |-> registry_calls], diff_deleted)
     IN /\ collection' = st.coll
        /\ hashes' = st.reg
        /\ ops' = st.ops
        /\ registry_calls' = st.calls
  /\ removed' = removed \cup (Range(diff_deleted) \cap StoredPaths(collection))
  /\ pc' = "chunk"
  /\ UNCHANGED <<fs, hashes_file, mode, files, diff_changed, diff_deleted, diff_hashed, todo,
                 all_chunks, result, streak, lost>>
  /\ UNCHANGED <<config, window_calls, saves, other_vars>>

\* one iteration of the loop over diff.changed
IncrChunk ==
  /\ pc = "chunk"
  /\ todo # <<>>
  /\ chunk_file_returns(fs, Head(todo), config.max_chunk_lines, config.chunk_overlap)
  /\ LET f == Head(todo)
         chunks == Stamp(chunk_file(fs, f, config.max_chunk_lines, config.chunk_overlap), f)
     IN /\ window_calls' = window_calls \cup
             chunk_file_windows(fs, f, config.max_chunk_lines, config.chunk_overlap)
        /\ collection' = delete_by_file(collection, f)
        /\ ops' = Append(ops, [op |-> "delete", arg |-> f])
        /\ removed' = removed \cup ({f} \cap StoredPaths(collection))
        /\ all_chunks' = all_chunks \o chunks
        /\ hashes' = update(hashes, f, fs)
        /\ registry_calls' = Append(registry_calls, [op |-> "update", arg |-> f])
  /\ todo' = Tail(todo)
  /\ UNCHANGED <<fs, hashes_file, pc, mode, files, diff_changed, diff_deleted, diff_hashed,
                 result, streak, lost>>
  /\ UNCHANGED <<config, saves, other_vars>>

\* the end of _incremental_index, by either return
IncrFinish ==
  /\ pc = "chunk"
  /\ todo = <<>>
  /\ IF diff_changed # <<>> /\ all_chunks # <<>>
       THEN /\ collection' = _embed_and_store(collection, all_chunks)
            /\ ops' = Append(ops, [op |-> "upsert", arg |-> Len(all_chunks)])
       ELSE UNCHANGED <<collection, ops>>
  /\ hashes_file' = save(hashes_file, hashes)
  /\ result' = IF diff_changed = <<>>
               THEN IndexResult(0, 0, Len(diff_deleted), Len(files) - Len(diff_changed))
               ELSE IndexResult(Len(all_chunks), Len(diff_changed), Len(diff_deleted),
                                Len(files) - Len(diff_changed))
  /\ streak' = Min(2, streak + 1)
  /\ pc' = "done"
  /\ UNCHANGED <<fs, mode, files, hashes, diff_changed, diff_deleted, diff_hashed, todo,
                 all_chunks, removed, lost>>
  /\ saves' = saves + 1
  /\ UNCHANGED <<config, window_calls, registry_calls, other_vars>>

\* the caller has the IndexResult; the process state of the run is gone
Return ==
  /\ pc = "done"
  /\ pc' = "idle"
  /\ ForgetRun
  /\ lost' = {}
  /\ UNCHANGED <<fs, hashes_file, collection, streak>>
  /\ UNCHANGED <<config, other_vars>>

\* The run is abandoned (the caller times out, the process dies, or an
\* embedding or store call raises): nothing more happens, the registry in
\* memory is dropped without being saved.
Abandon ==
  /\ pc \in {"full", "purge", "chunk"}
  /\ pc' = "idle"
  /\ ForgetRun
  /\ lost' = lost \cup removed
  /\ streak' = 0
  /\ UNCHANGED <<fs, hashes_file, collection>>
  /\ UNCHANGED <<config, other_vars>>

Next ==
  \/ EnvChange
  \/ StartFull
  \/ FullChunk
  \/ FullFinish
  \/ StartIncremental
  \/ IncrPurge
  \/ IncrChunk
  \/ IncrFinish
  \/ Return
  \/ Abandon

Spec == Init /\ [][Next]_vars

\* =================================================================== claims
\* In Spec the tree does not change while a run is in progress, so in a
\* state with pc = "purge" the registry file hashes_file is the registry as
\* diff found it, hashes is the registry as diff left it, and fs is the tree
\* diff looked at.

StrictlyIncreasing(sq) == \A i \in 1..(Len(sq) - 1) : sq[i] < sq[i + 1]

\* C7: for readable candidates, diff.changed holds exactly the candidates
\* that have no stored entry, or whose mtime differs from the stored mtime and
\* whose SHA-256 differs from the stored hash; all others are unchanged.
C7_ChangedExactly ==
  pc = "purge" =>
    /\ Range(diff_changed) \subseteq Range(files)
    /\ \A p \in Range(files) :
         CanRead(fs, p) =>
           (p \in Range(diff_changed) <=>
              \/ p \notin DOMAIN hashes_file
              \/ /\ fs[p].mtime # hashes_file[p].mtime
                 /\ Sha256(fs[p].content) # hashes_file[p].hash)

\* a modified file is reported as changed, a merely touched one is not
C7_Witness ==
  /\ pc = "purge"
  /\ \E p \in Range(diff_changed) : p \in DOMAIN hashes_file
  /\ \E q \in Range(files) \ Range(diff_changed) :
       /\ CanRead(fs, q)
       /\ q \in DOMAIN hashes_file
       /\ fs[q].mtime # hashes_file[q].mtime

\* C8: a candidate with a stored entry whose mtime equals the stored mtime is
\* unchanged, is not hashed, whatever its content, and its entry is untouched.
C8_FastPath ==
  pc = "purge" =>
    \A p \in Range(files) :
      (p \in DOMAIN hashes_file /\ fs[p].mtime = hashes_file[p].mtime) =>
        /\ p \notin Range(diff_changed)
        /\ p \notin Range(diff_hashed)
        /\ p \in DOMAIN hashes
        /\ hashes[p] = hashes_file[p]

\* the fast path is taken for a file whose content is not the stored one
C8_Witness ==
  /\ pc = "purge"
  /\ \E p \in Range(files) :
       /\ p \in DOMAIN hashes_file
       /\ fs[p].mtime = hashes_file[p].mtime
       /\ CanRead(fs, p)
       /\ Sha256(fs[p].content) # hashes_file[p].hash

\* the candidates of the mtime-only case: stored, readable, mtime moved,
\* content hash equal to the stored hash
TouchedOnly(p) ==
  /\ p \in DOMAIN hashes_file
  /\ CanRead(fs, p)
  /\ fs[p].mtime # hashes_file[p].mtime
  /\ Sha256(fs[p].content) = hashes_file[p].hash

\* C9: a candidate whose mtime moved but whose content hash equals the stored
\* hash is unchanged, keeps its stored hash and gets the new mtime, so that
\* the next diff does not hash it.
C9_TouchRefreshesMtime ==
  pc = "purge" =>
    \A p \in Range(files) :
      TouchedOnly(p) =>
        /\ p \notin Range(diff_changed)
        /\ p \in DOMAIN hashes
        /\ hashes[p] = Entry(hashes_file[p].hash, fs[p].mtime)
        /\ p \notin Range(diff(hashes, files, fs).hashed)

C9_Witness ==
  /\ pc = "purge"
  /\ \E p \in Range(files) : TouchedOnly(p) /\ p \in Range(diff_hashed)

\* C10: diff.deleted is exactly the registry keys that are no candidate's
\* relative path, each once, sorted, whatever is changed; no path is both
\* deleted and changed.
C10_DeletedExactly ==
  pc = "purge" =>
    /\ Range(diff_deleted) = DOMAIN hashes_file \ Range(files)
    /\ StrictlyIncreasing(diff_deleted)
    /\ Range(diff_deleted) \cap Range(diff_changed) = {}

\* a deletion is reported next to a changed file
C10_Witness ==
  /\ pc = "purge"
  /\ diff_deleted # <<>>
  /\ diff_changed # <<>>

\* In a state with pc = "done" the run has returned: result is its
\* IndexResult, ops the store calls it issued, all_chunks the chunks it
\* extracted, hashes its registry and hashes_file the registry it saved.

\* the stored items whose metadata names file p
ItemsOf(coll, p) == {it \in coll : it.metadata.file_path = p}

\* document and metadata of a stored item, without its id
Payload(it) == [document |-> it.document, metadata |-> it.metadata]

\* the chunks of a run that were stamped with path p, by position
ChunksOf(chunks, p) == {i \in 1..Len(chunks) : chunks[i].file_path = p}

\* the items in coll stamped p are exactly the chunks of the list stamped p
HoldsExactly(coll, chunks, p) ==
  /\ Cardinality(ItemsOf(coll, p)) = Cardinality(ChunksOf(chunks, p))
  /\ {Payload(it) : it \in ItemsOf(coll, p)} =
       {[document |-> chunks[i].content, metadata |-> Metadata(chunks[i])] :
          i \in ChunksOf(chunks, p)}

\* what extracting file p from the tree gives, stamped with p
Extraction(p) == Stamp(chunk_file(fs, p, MaxChunkLines, ChunkOverlap), p)

\* the chunks of the content that digest h stands for, stamped with p
ChunksOfDigest(h, p) ==
  Stamp(chunk_file([q \in Paths |-> FileState(h - 1000, 1, TRUE)], p,
                   MaxChunkLines, ChunkOverlap), p)

RECURSIVE ExtractionOfAll(_)
ExtractionOfAll(fl) ==
  IF fl = <<>> THEN <<>> ELSE Extraction(Head(fl)) \o ExtractionOfAll(Tail(fl))

\* C1: an incremental run that completes right after a completed incremental
\* run, the tree untouched since the first one started, returns
\* files_changed = 0, files_deleted = 0, chunks_indexed = 0 and issues no
\* store call.
C1_SecondRunIdle ==
  (pc = "done" /\ mode = "incremental" /\ streak = 2) =>
    /\ result.files_changed = 0
    /\ result.files_deleted = 0
    /\ result.chunks_indexed = 0
    /\ ops = <<>>

\* the second run of such a pair, over a tree with indexed files
C1_Witness ==
  /\ pc = "done" /\ mode = "incremental" /\ streak = 2
  /\ Len(files) = 2
  /\ collection # {}
  /\ result.files_unchanged = 2

\* C2: after an abandoned run that had removed items from the store, the
\* next incremental run that completes re-processes every file whose items
\* were removed, so that the store again holds the chunks of every such file
\* that has a registry entry.
C2_AbandonedWorkRedone ==
  (pc = "done" /\ mode = "incremental") =>
    \A p \in lost :
      p \in DOMAIN hashes_file =>
        /\ p \in Range(diff_changed)
        /\ HoldsExactly(collection, ChunksOfDigest(hashes_file[p].hash, p), p)

\* C3: after an incremental run, the stored items of every changed file are
\* exactly the chunks this run extracted from it, stamped with its path.
C3_ChangedFileReplaced ==
  (pc = "done" /\ mode = "incremental") =>
    \A p \in Range(diff_changed) :
      /\ HoldsExactly(collection, all_chunks, p)
      /\ HoldsExactly(collection, Extraction(p), p)

\* a changed file whose old items the run removed, with new items stored
C3_Witness ==
  /\ pc = "done" /\ mode = "incremental"
  /\ \E p \in Range(diff_changed) : p \in removed /\ ItemsOf(collection, p) # {}

\* C4: after an incremental run, no path reported as deleted has an item in
\* the store or an entry in the registry, and files_deleted counts them.
C4_DeletedPurged ==
  (pc = "done" /\ mode = "incremental") =>
    /\ \A p \in Range(diff_deleted) :
         /\ ItemsOf(collection, p) = {}
         /\ p \notin DOMAIN hashes
         /\ p \notin DOMAIN hashes_file
    /\ result.files_deleted = Cardinality(Range(diff_deleted))

\* a deleted path whose items the run removed from the store
C4_Witness ==
  /\ pc = "done" /\ mode = "incremental"
  /\ \E p \in Range(diff_deleted) : p \in removed

\* what C5 says of a full run apart from the registry
FullRunEffects ==
  /\ ops # <<>>
  /\ ops[1].op = "clear"
  /\ \A i \in 2..Len(ops) : ops[i].op = "upsert"
  /\ all_chunks = ExtractionOfAll(files)
  /\ result.files_changed = Len(files)
  /\ result.files_deleted = 0
  /\ result.files_unchanged = 0
  /\ Cardinality(collection) = Len(all_chunks)
  /\ \A p \in Paths : HoldsExactly(collection, all_chunks, p)

Refreshed(p) ==
  /\ p \in DOMAIN hashes_file
  /\ hashes_file[p] = Entry(Sha256(fs[p].content), fs[p].mtime)

\* C5 as claimed: a full run clears the store first, chunks every candidate,
\* refreshes the registry entry of every candidate to its current hash and
\* mtime, returns files_changed = number of candidates, files_deleted = 0,
\* files_unchanged = 0, and leaves exactly this run's chunks in the store.
C5_FullRunAsClaimed ==
  (pc = "done" /\ mode = "full") =>
    /\ FullRunEffects
    /\ \A p \in Range(files) : Refreshed(p)

\* C5 as amended: the same, with the registry entry refreshed for every
\* candidate that can be read.
C5_FullRun ==
  (pc = "done" /\ mode = "full") =>
    /\ FullRunEffects
    /\ \A p \in Range(files) : CanRead(fs, p) => Refreshed(p)

\* a full run over an indexed tree with a readable and an unreadable file
C5_Witness ==
  /\ pc = "done" /\ mode = "full"
  /\ removed # {}
  /\ \E p \in Range(files) : CanRead(fs, p) /\ ItemsOf(collection, p) # {}
  /\ \E p \in Range(files) : ~CanRead(fs, p)

\* C6: after a completed run, full or incremental, the registry in memory
\* and as saved has no entry for a path that is not a candidate of the run.
C6_NoEntryForAbsentPath ==
  pc = "done" =>
    /\ DOMAIN hashes \subseteq Range(files)
    /\ DOMAIN hashes_file \subseteq Range(files)

\* ==================================================== the registry, alone
\* FileHashRegistry(db_dir) and diff(files) taken one call at a time, over a
\* registry file left by earlier runs (or damaged since) and a tree in which
\* files disappear after collect_files has listed them.

\* the entries a registry file can hold for one path
Entries == {Entry(Sha256(c), m) : c \in Contents, m \in Mtimes}

\* the well-formed registry files
Registries == UNION {[S -> Entries] : S \in SUBSET Paths}

RegistryForms == {"mapping", "invalid_json", "bad_encoding", "not_mapping"}

InitDiff ==
  /\ fs \in [Paths -> FileStates]
  /\ hashes_form \in RegistryForms
  /\ hashes_file \in IF hashes_form = "mapping" THEN Registries ELSE {<< >>}
  /\ collection = {}
  /\ pc = "idle"
  /\ NoRunInMemory
  /\ streak = 0
  /\ lost = {}
  /\ config = [max_chunk_lines |-> MaxChunkLines, chunk_overlap |-> ChunkOverlap]
  /\ observed = <<>>
  /\ error = "none"
  /\ parser_cache = {}
  /\ snapshot_file = [form |-> "absent", data |-> << >>]
  /\ session_diff = "none"
  /\ input = "none"
  /\ output = NoOutput

\* what the steps of this specification leave alone
diff_frame ==
  <<hashes_file, collection, mode, all_chunks, result, ops, removed, streak, lost,
    config, window_calls, saves, registry_calls, parser_cache, hashes_form, snapshot_file, session_diff, input, output>>

\* registry = FileHashRegistry(config.db_dir)
RegistryInit ==
  /\ pc = "idle"
  /\ LET l == _load(hashes_form, hashes_file)
     IN IF l.raised = "none"
          THEN /\ hashes' = l.hashes
               /\ pc' = "loaded"
               /\ error' = error
          ELSE /\ hashes' = hashes
               /\ pc' = "raised"
               /\ error' = l.raised
  /\ UNCHANGED <<fs, files, todo, diff_changed, diff_deleted, diff_hashed, observed>>
  /\ UNCHANGED diff_frame

\* files = collect_files(config)
CollectFiles ==
  /\ pc = "loaded"
  /\ files' = collect_files(fs)
  /\ todo' = collect_files(fs)
  /\ pc' = "diff"
  /\ UNCHANGED <<fs, hashes, diff_changed, diff_deleted, diff_hashed, observed, error>>
  /\ UNCHANGED diff_frame

\* a file that was listed is deleted before diff gets to it
FileVanishes ==
  /\ pc = "diff"
  /\ \E p \in Range(todo) :
       /\ fs[p].exists
       /\ fs' = [fs EXCEPT ![p] = NoFile]
  /\ UNCHANGED <<pc, files, todo, hashes, diff_changed, diff_deleted, diff_hashed,
                 observed, error>>
  /\ UNCHANGED diff_frame

\* One iteration of the loop of diff.  The file may be deleted while the
\* iteration is at it: after file.stat() ("after_stat") or after _hash_file
\* ("after_hash").  self._hashes.get raises when _hashes is a list.
DiffIteration ==
  /\ pc = "diff"
  /\ todo # <<>>
  /\ LET p == Head(todo)
     IN IF hashes_form = "not_mapping"
          THEN /\ pc' = "raised"
               /\ error' = "AttributeError"
               /\ UNCHANGED <<fs, todo, hashes, diff_changed, diff_hashed, observed>>
          ELSE \E gone \in {"never", "after_stat", "after_hash"} :
                 /\ gone # "never" => fs[p].exists
                 /\ LET st1 == Stat(fs, p)
                        h == IF gone = "after_stat" THEN None ELSE _hash_file(fs, p)
                        st2 == IF gone = "never" THEN Stat(fs, p) ELSE OSError
                        acc == DiffFile([changed |-> diff_changed, hashes |-> hashes,
                                         hashed |-> diff_hashed], p, st1, h, st2)
                    IN /\ diff_changed' = acc.changed
                       /\ hashes' = acc.hashes
                       /\ diff_hashed' = acc.hashed
                       /\ observed' = Append(observed, [file |-> p, stat |-> st1, hash |-> h,
                                                          stored |-> p \in DOMAIN hashes])
                 /\ fs' = IF gone = "never" THEN fs ELSE [fs EXCEPT ![p] = NoFile]
                 /\ todo' = Tail(todo)
                 /\ UNCHANGED <<pc, error>>
  /\ UNCHANGED <<files, diff_deleted>>
  /\ UNCHANGED diff_frame

\* the end of diff: stored_paths - current_rel_paths, sorted, and the return
DiffReturn ==
  /\ pc = "diff"
  /\ todo = <<>>
  /\ IF hashes_form = "not_mapping"
       THEN /\ pc' = "raised"
            /\ error' = "AttributeError"
            /\ UNCHANGED diff_deleted
       ELSE /\ diff_deleted' = DiffDeleted(hashes, files)
            /\ pc' = "diffed"
            /\ UNCHANGED error
  /\ UNCHANGED <<fs, files, todo, hashes, diff_changed, diff_hashed, observed>>
  /\ UNCHANGED diff_frame

NextDiff ==
  \/ RegistryInit
  \/ CollectFiles
  \/ FileVanishes
  \/ DiffIteration
  \/ DiffReturn

SpecDiff == InitDiff /\ [][NextDiff]_vars

\* An iteration of diff that could not stat the file (it has a stored entry,
\* so file.stat() was called, and raised) or could not read it (_hash_file
\* returned None).
NotStatedOrRead(o) ==
  \/ o.stored /\ o.stat = OSError
  \/ ~(o.stored /\ o.stat = OSError) /\ o.hash = None

\* C11: a candidate that diff cannot stat or read (no permission, or gone
\* after discovery) is skipped: it is not in changed, not in deleted, nothing
\* is raised, and its registry entry is as it was loaded.
C11_UnreadableSkipped ==
  \A i \in 1..Len(observed) :
    NotStatedOrRead(observed[i]) =>
      LET p == observed[i].file
      IN /\ p \notin Range(diff_changed)
         /\ p \notin Range(diff_deleted)
         /\ error = "none"
         /\ p \in DOMAIN hashes_file <=> p \in DOMAIN hashes
         /\ p \in DOMAIN hashes_file => hashes[p] = hashes_file[p]

\* C12: a run that completes has saved the registry exactly once, in its
\* last step, after all its store and registry updates; a run ended by a
\* failing embedding or store call has not saved it, and the registry file
\* is what it was when the run started.
C12_SavedOnceAtTheEnd ==
  /\ [](pc = "done" => saves = 1 /\ hashes_file = hashes)
  /\ [](pc \in {"full", "purge", "chunk"} => saves = 0)
  /\ [][(hashes_file' # hashes_file \/ saves' > saves)
          => (pc' = "done" /\ saves' = saves + 1)]_vars
  /\ [][Abandon => (saves = 0 /\ hashes_file' = hashes_file)]_vars

\* a run has completed, after an abandoned one that had removed items, and
\* saved a registry that differs from the one it loaded
C12_Witness ==
  /\ pc = "done"
  /\ saves = 1
  /\ lost # {}
  /\ ops # <<>>
  /\ hashes_file # << >>

\* the candidates diff could read
ReadByDiff == {observed[i].file : i \in {j \in 1..Len(observed) : observed[j].hash # None}}

\* C13: when the registry file is malformed (wrong encoding, invalid JSON,
\* or JSON that is no path-to-entry mapping), loading it and the diff that
\* follows raise nothing and the registry behaves as empty: every readable
\* candidate is in changed and deleted is empty.
C13_MalformedRegistryIsEmpty ==
  hashes_form # "mapping" =>
    /\ pc # "raised"
    /\ error = "none"
    /\ pc = "diffed" => /\ Range(diff_changed) = ReadByDiff
                        /\ diff_deleted = <<>>

\* ====================================================== the session tracker
\* take_snapshot, compute_diff and clear_snapshot of session.py over a tree
\* that is edited between the calls and a snapshot file that may get damaged.

\* what session.py's call returned: op is the function, kind is "count"
\* (take_snapshot), "none" (None), "diff" (a SessionDiff) or "raised"
Returned(op, kind, modified, created, deleted, tracked) ==
  [op |-> op, kind |-> kind, modified |-> modified, created |-> created,
   deleted |-> deleted, tracked |-> tracked]

NothingReturned == Returned("none", "none", <<>>, <<>>, <<>>, 0)

\* rel -> hash for the candidates _hash_file can read
current_hashes(disk) ==
  [p \in {q \in Range(collect_files(disk)) : _hash_file(disk, q) # None}
     |-> _hash_file(disk, p)]

SnapshotForms == {"absent", "mapping", "invalid_json", "bad_encoding", "not_mapping"}

InitSession ==
  /\ fs \in [Paths -> FileStates]
  /\ snapshot_file = [form |-> "absent", data |-> << >>]
  /\ session_diff = NothingReturned
  /\ error = "none"
  /\ parser_cache = {}
  /\ hashes_file = << >>
  /\ collection = {}
  /\ pc = "idle"
  /\ NoRunInMemory
  /\ streak = 0
  /\ lost = {}
  /\ config = [max_chunk_lines |-> MaxChunkLines, chunk_overlap |-> ChunkOverlap]
  /\ hashes_form = "mapping"
  /\ observed = <<>>
  /\ input = "none"
  /\ output = NoOutput

\* what the session functions leave alone
session_frame ==
  <<hashes_file, collection, pc, mode, files, hashes, diff_changed, diff_deleted,
    diff_hashed, todo, all_chunks, result, ops, removed, streak, lost, config,
    window_calls, saves, registry_calls, parser_cache, hashes_form, observed, input, output>>

\* an editor changes one file of the tree
SessionEdit ==
  /\ \E p \in Paths, st \in FileStates :
       /\ st # fs[p]
       /\ fs' = [fs EXCEPT ![p] = st]
  /\ session_diff' = NothingReturned
  /\ error' = "none"
  /\ UNCHANGED snapshot_file
  /\ UNCHANGED session_frame

\* session_snapshot.json is overwritten with something that is no snapshot:
\* text that is no JSON, bytes that are no UTF-8, or the JSON list []
SnapshotDamaged ==
  /\ snapshot_file.form = "mapping"
  /\ \E form \in {"invalid_json", "bad_encoding", "not_mapping"} :
       snapshot_file' = [form |-> form, data |-> << >>]
  /\ session_diff' = NothingReturned
  /\ error' = "none"
  /\ UNCHANGED fs
  /\ UNCHANGED session_frame

\* take_snapshot that adds the current hashes to the snapshot it finds
TakeSnapshotMerging ==
  /\ snapshot_file' = [form |-> "mapping",
                       data |-> current_hashes(fs) @@ snapshot_file.data]
  /\ session_diff' = Returned("take_snapshot", "count", <<>>, <<>>, <<>>,
                              Cardinality(DOMAIN current_hashes(fs)))
  /\ error' = "none"
  /\ UNCHANGED fs
  /\ UNCHANGED session_frame

\* take_snapshot(config)
take_snapshot ==
  /\ snapshot_file' = [form |-> "mapping", data |-> current_hashes(fs)]
  /\ session_diff' = Returned("take_snapshot", "count", <<>>, <<>>, <<>>,
                              Cardinality(DOMAIN current_hashes(fs)))
  /\ error' = "none"
  /\ UNCHANGED fs
  /\ UNCHANGED session_frame

\* a SessionDiff that reports every path of the snapshot that is still
\* there as modified, without the comparison of the hashes
SessionDiffNoHashCompare(snapshot, current) ==
  [modified |-> SortedSeq(DOMAIN current \cap DOMAIN snapshot),
   created |-> SortedSeq(DOMAIN current \ DOMAIN snapshot),
   deleted |-> SortedSeq(DOMAIN snapshot \ DOMAIN current)]

\* the SessionDiff of compute_diff for a snapshot that is a mapping
SessionDiff(snapshot, current) ==
  [modified |-> SortedSeq({p \in DOMAIN current :
                             p \in DOMAIN snapshot /\ snapshot[p] # current[p]}),
   created |-> SortedSeq(DOMAIN current \ DOMAIN snapshot),
   deleted |-> SortedSeq(DOMAIN snapshot \ DOMAIN current)]

\* compute_diff that takes the hashes of the registry for the snapshot
ComputeDiffOfRegistry ==
  /\ LET d == SessionDiff([p \in DOMAIN hashes_file |-> hashes_file[p].hash],
                          current_hashes(fs))
     IN session_diff' = Returned("compute_diff", "diff", d.modified, d.created,
                                 d.deleted, 0)
  /\ error' = "none"
  /\ UNCHANGED <<fs, snapshot_file>>
  /\ UNCHANGED session_frame

\* compute_diff(config): None without a snapshot file and for one that is
\* no JSON; read_text raises for bytes that are no UTF-8; snapshot.keys()
\* raises for a list
compute_diff ==
  /\ LET form == snapshot_file.form
         d == SessionDiff(snapshot_file.data, current_hashes(fs))
     IN IF form \in {"absent", "invalid_json"}
          THEN /\ session_diff' = Returned("compute_diff", "none", <<>>, <<>>, <<>>, 0)
               /\ error' = "none"
        ELSE IF form = "bad_encoding"
          THEN /\ session_diff' = Returned("compute_diff", "raised", <<>>, <<>>, <<>>, 0)
               /\ error' = "UnicodeDecodeError"
        ELSE IF form = "not_mapping"
          THEN /\ session_diff' = Returned("compute_diff", "raised", <<>>, <<>>, <<>>, 0)
               /\ error' = "AttributeError"
        ELSE /\ session_diff' = Returned("compute_diff", "diff", d.modified, d.created,
                                         d.deleted, 0)
             /\ error' = "none"
  /\ UNCHANGED <<fs, snapshot_file>>
  /\ UNCHANGED session_frame

\* clear_snapshot that leaves the snapshot file where it is
ClearSnapshotNothing ==
  /\ session_diff' = Returned("clear_snapshot", "none", <<>>, <<>>, <<>>, 0)
  /\ error' = "none"
  /\ UNCHANGED <<fs, snapshot_file>>
  /\ UNCHANGED session_frame

\* clear_snapshot(config)
clear_snapshot ==
  /\ snapshot_file' = [form |-> "absent", data |-> << >>]
  /\ session_diff' = Returned("clear_snapshot", "none", <<>>, <<>>, <<>>, 0)
  /\ error' = "none"
  /\ UNCHANGED fs
  /\ UNCHANGED session_frame

NextSession ==
  \/ SessionEdit
  \/ SnapshotDamaged
  \/ take_snapshot
  \/ compute_diff
  \/ clear_snapshot

SpecSession == InitSession /\ [][NextSession]_vars

\* C14: when the snapshot file is malformed, compute_diff raises nothing and
\* treats the snapshot as empty: every readable candidate is reported as
\* created, modified and deleted are empty.
C14_MalformedSnapshotIsEmpty ==
  (session_diff.op = "compute_diff"
     /\ snapshot_file.form \in {"invalid_json", "bad_encoding", "not_mapping"}) =>
    /\ error = "none"
    /\ session_diff.kind = "diff"
    /\ session_diff.created = SortedSeq(DOMAIN current_hashes(fs))
    /\ session_diff.modified = <<>>
    /\ session_diff.deleted = <<>>


\* ==================================================== the Window Splitter
\* _sliding_window applied once to a text of n lines.

\* a text of n lines, none of them blank
Text(n) == [i \in 1..n |-> <<1, i>>]

\* the example of the specification: 25 lines, max_lines 10, overlap 2
WindowExample ==
  [lines |-> Text(25), offset |-> 0, max_lines |-> 10, overlap |-> 2, symbol |-> NoSymbol]

\* max_lines >= 1 and 0 <= overlap < max_lines; offset and symbol as
\* _chunk_with_treesitter or chunk_file pass them
WindowInputs ==
  {[lines |-> Text(n), offset |-> off, max_lines |-> m, overlap |-> o, symbol |-> sym] :
     n \in 1..MaxWindowLines, off \in {0, 1}, m \in 1..MaxChunkLines,
     o \in 0..(MaxChunkLines - 1), sym \in {NoSymbol, "f"}}

InitWindow ==
  /\ input \in {w \in WindowInputs : w.overlap < w.max_lines} \cup {WindowExample}
  /\ output = NoOutput
  /\ fs = [p \in Paths |-> NoFile]
  /\ hashes_file = << >>
  /\ collection = {}
  /\ pc = "idle"
  /\ NoRunInMemory
  /\ streak = 0
  /\ lost = {}
  /\ config = [max_chunk_lines |-> MaxChunkLines, chunk_overlap |-> ChunkOverlap]
  /\ hashes_form = "mapping"
  /\ observed = <<>>
  /\ error = "none"
  /\ parser_cache = {}
  /\ snapshot_file = [form |-> "absent", data |-> << >>]
  /\ session_diff = "none"

\* everything but the arguments and the result of the function
function_frame ==
  <<index_vars, config, window_calls, saves, registry_calls, parser_cache, hashes_form, observed, error,
    snapshot_file, session_diff>>

\* chunks = _sliding_window(lines, offset, max_lines, overlap, language, symbol)
SlidingWindow ==
  /\ ~output.returned
  /\ output' = [returned |-> TRUE,
                value |-> _sliding_window(input.lines, input.offset, input.max_lines,
                                          input.overlap, NoLanguage, input.symbol)]
  /\ UNCHANGED input
  /\ UNCHANGED function_frame

NextWindow == SlidingWindow

SpecWindow == InitWindow /\ [][NextWindow]_vars

\* the line ranges of a chunk sequence, relative to the text that was split
RangesOf(chunks, offset) ==
  [i \in 1..Len(chunks) |-> <<chunks[i].start_line - offset, chunks[i].end_line - offset>>]

\* C15: for max_lines >= 1, 0 <= overlap < max_lines and n >= 1 lines the
\* Window Splitter returns chunks of at most max_lines lines each; the first
\* starts at line 1; every later chunk starts at its predecessor's end -
\* overlap + 1, sharing exactly overlap lines with it; the last chunk ends at
\* line n; n <= max_lines gives the single chunk [1, n]; and n = 25,
\* max_lines = 10, overlap = 2 gives [1-10], [9-18], [17-25].
C15_WindowRanges ==
  output.returned =>
    LET r == RangesOf(output.value, input.offset)
        n == Len(input.lines)
    IN /\ Len(r) >= 1
       /\ \A i \in 1..Len(r) : /\ r[i][1] <= r[i][2]
                               /\ r[i][2] - r[i][1] + 1 <= input.max_lines
       /\ r[1][1] = 1
       /\ \A i \in 2..Len(r) : /\ r[i][1] = r[i - 1][2] - input.overlap + 1
                               /\ r[i][2] > r[i - 1][2]
       /\ r[Len(r)][2] = n
       /\ n <= input.max_lines => r = <<<<1, n>>>>
       /\ input = WindowExample => r = <<<<1, 10>>, <<9, 18>>, <<17, 25>>>>

\* the example has been split
C15_Witness ==
  /\ output.returned
  /\ input = WindowExample
  /\ Len(output.value) = 3


\* ============================================= runs under any configuration
\* index_project under a CodeScopeConfig whose max_chunk_lines and
\* chunk_overlap are whatever .codescope/config holds, on a tree that is not
\* edited meanwhile.

Configs ==
  [max_chunk_lines : 1..MaxChunkLines, chunk_overlap : 0..MaxChunkLines]

InitConfig ==
  /\ fs \in [Paths -> FileStates]
  /\ config \in Configs
  /\ hashes_file = << >>
  /\ collection = {}
  /\ pc = "idle"
  /\ NoRunInMemory
  /\ streak = 0
  /\ lost = {}
  /\ NothingElse

\* chunk_file(f, max_lines, overlap) is called and never returns: the loop of
\* _sliding_window does not end.  In an incremental run the items of the
\* file have been deleted just before.
ChunkFileHangs ==
  /\ pc \in {"full", "chunk"}
  /\ todo # <<>>
  /\ ~chunk_file_returns(fs, Head(todo), config.max_chunk_lines, config.chunk_overlap)
  /\ LET f == Head(todo)
     IN /\ window_calls' = window_calls \cup
             chunk_file_windows(fs, f, config.max_chunk_lines, config.chunk_overlap)
        /\ IF pc = "chunk"
             THEN /\ collection' = delete_by_file(collection, f)
                  /\ ops' = Append(ops, [op |-> "delete", arg |-> f])
                  /\ removed' = removed \cup ({f} \cap StoredPaths(collection))
             ELSE UNCHANGED <<collection, ops, removed>>
  /\ pc' = "hung"
  /\ UNCHANGED <<fs, hashes_file, mode, files, hashes, diff_changed, diff_deleted,
                 diff_hashed, todo, all_chunks, result, streak, lost>>
  /\ UNCHANGED <<config, saves, registry_calls, other_vars>>

NextConfig ==
  \/ StartFull
  \/ FullChunk
  \/ FullFinish
  \/ StartIncremental
  \/ IncrPurge
  \/ IncrChunk
  \/ IncrFinish
  \/ Return
  \/ ChunkFileHangs

SpecConfig == InitConfig /\ [][NextConfig]_vars

\* C16: index_project, full or incremental, never calls the Window Splitter
\* with overlap >= max_lines: such a configuration is rejected or clamped
\* before any file is processed.
C16_OverlapBelowMaxLines ==
  \A w \in window_calls : w.overlap < w.max_lines


\* ============================================================== chunk_file
\* chunk_file applied once to a source file, with every outcome of reading
\* it, of loading its grammar and of parsing it.

\* the texts of n lines: each line blank or not
Texts(n) ==
  {[i \in 1..n |-> IF i \in B THEN BlankLine ELSE <<1, i>>] : B \in SUBSET (1..n)}

\* what a child of the root can be: of a semantic type, with the name
\* _get_node_name finds, or of another type
NodeKinds ==
  {[semantic |-> TRUE, name |-> "f"], [semantic |-> FALSE, name |-> NoSymbol]}

Node(kind, start, end) ==
  [semantic |-> kind.semantic, name |-> kind.name, start |-> start, end |-> end]

RECURSIVE ChildSeqs(_, _, _)
\* The sequences of at most k children from row from on: children come in
\* source order, a child starts no earlier than the row its predecessor
\* ends on, and starts and ends on rows that hold text.
ChildSeqs(lines, from, k) ==
  {<<>>} \cup
  (IF k = 0 THEN {}
   ELSE UNION {{<<Node(kind, a, b)>> \o rest : rest \in ChildSeqs(lines, b, k - 1)} :
                 <<kind, a, b>> \in
                   {t \in NodeKinds \X (from..(Len(lines) - 1)) \X (from..(Len(lines) - 1)) :
                      /\ t[2] <= t[3]
                      /\ lines[t[2] + 1] # BlankLine
                      /\ lines[t[3] + 1] # BlankLine}})

\* the children of the root of the parse tree of a text: every row that
\* holds text lies in a child
Trees(lines) ==
  {cs \in ChildSeqs(lines, 0, MaxChildren) :
     \A i \in 1..Len(lines) :
       lines[i] # BlankLine =>
         \E k \in 1..Len(cs) : cs[k].start + 1 <= i /\ i <= cs[k].end + 1}

Grammars == {"none", "load_fails", "parse_throws", "no_semantic_types", "parsed"}

Sources ==
  {Source(FALSE, <<>>, g, <<>>) : g \in {"none", "parsed"}} \cup
  UNION {UNION {{Source(TRUE, lines, g, cs) :
                   cs \in IF g = "parsed" THEN Trees(lines) ELSE {<<>>}} :
                  g \in Grammars} :
           lines \in UNION {Texts(n) : n \in 0..MaxSourceLines}}

InitChunk ==
  /\ input \in {[src |-> src, max_lines |-> m, overlap |-> o] :
                  src \in Sources,
                  m \in 1..MaxChunkLines, o \in 0..(MaxChunkLines - 1)}
  /\ input.overlap < input.max_lines
  /\ output = NoOutput
  /\ fs = [p \in Paths |-> NoFile]
  /\ hashes_file = << >>
  /\ collection = {}
  /\ pc = "idle"
  /\ NoRunInMemory
  /\ streak = 0
  /\ lost = {}
  /\ config = [max_chunk_lines |-> MaxChunkLines, chunk_overlap |-> ChunkOverlap]
  /\ hashes_form = "mapping"
  /\ observed = <<>>
  /\ error = "none"
  /\ parser_cache = {}
  /\ snapshot_file = [form |-> "absent", data |-> << >>]
  /\ session_diff = "none"

\* chunks = chunk_file(path, max_lines=max_lines, overlap=overlap)
ChunkFile ==
  /\ ~output.returned
  /\ output' = [returned |-> TRUE,
                value |-> chunk_source(input.src, input.max_lines, input.overlap)]
  /\ UNCHANGED input
  /\ UNCHANGED function_frame

NextChunk == ChunkFile

SpecChunk == InitChunk /\ [][NextChunk]_vars


\* the lines (1-indexed) that lie in the range of some chunk
Covered(chunks) ==
  UNION {chunks[i].start_line .. chunks[i].end_line : i \in 1..Len(chunks)}

\* what the Window Splitter makes of all the lines of the source
WindowOverAll ==
  _sliding_window(input.src.lines, 0, input.max_lines, input.overlap, NoLanguage, NoSymbol)

\* C17 as stated: for every readable file with N >= 1 lines, whichever
\* splitter produced the result, the union of the line ranges of the chunks
\* is exactly {1..N}; a file with zero lines gives the empty list.
C17_EveryLineCovered ==
  (output.returned /\ input.src.readable) =>
    IF input.src.lines = <<>>
      THEN output.value.chunks = <<>>
      ELSE Covered(output.value.chunks) = 1..Len(input.src.lines)

\* C17, amended: for every readable file with N >= 1 lines the ranges of
\* the chunks lie in {1..N} and hold every line that has text; their union
\* is exactly {1..N} when the Window Splitter produced the result; a file
\* with zero lines gives the empty list.
C17_EveryTextLineCovered ==
  (output.returned /\ input.src.readable) =>
    LET lines == input.src.lines
        chunks == output.value.chunks
    IN IF lines = <<>>
         THEN chunks = <<>>
         ELSE /\ Covered(chunks) \subseteq 1..Len(lines)
              /\ {i \in 1..Len(lines) : lines[i] # BlankLine} \subseteq Covered(chunks)
              /\ chunks = WindowOverAll => Covered(chunks) = 1..Len(lines)

\* the Semantic Splitter has produced the result: two nodes, the blank line
\* between them left out, and the trailing text captured
C17_Witness ==
  /\ output.returned
  /\ input.src.readable
  /\ input.src.grammar = "parsed"
  /\ input.src.lines = <<<<1, 1>>, BlankLine, <<1, 3>>, <<1, 4>>>>
  /\ input.src.children = <<Node([semantic |-> TRUE, name |-> "f"], 0, 0),
                             Node([semantic |-> TRUE, name |-> "f"], 2, 2),
                             Node([semantic |-> FALSE, name |-> NoSymbol], 3, 3)>>
  /\ Covered(output.value.chunks) = {1, 3, 4}

\* C19: chunk_file returns what the Window Splitter makes of all the lines
\* (offset 0, no symbol) when the extension has no registered grammar, the
\* grammar fails to load, parsing throws, the language has no semantic
\* node types, or the Semantic Splitter yields no chunk.
C19_FallbackIsWindow ==
  (/\ output.returned
   /\ input.src.readable
   /\ input.src.lines # <<>>
   /\ \/ input.src.grammar \in {"none", "load_fails", "parse_throws", "no_semantic_types"}
      \/ _chunk_with_treesitter(input.src, input.max_lines, input.overlap) = <<>>)
  => output.value.chunks = WindowOverAll

\* a file of blank lines only has been parsed and split by the window
C19_Witness ==
  /\ output.returned
  /\ input.src.readable
  /\ input.src.grammar = "parsed"
  /\ Len(input.src.lines) > input.max_lines
  /\ IsBlank(input.src.lines)
  /\ Len(output.value.chunks) >= 2

\* C20: chunk_file returns the empty list and raises nothing for a file of
\* zero lines and for a file that cannot be read; for no file does an error
\* get out of chunk_file.
C20_NothingEscapes ==
  output.returned =>
    /\ output.value.raised = "none"
    /\ (~input.src.readable \/ input.src.lines = <<>>) => output.value.chunks = <<>>

\* chunk_file has returned for a file that cannot be read
C20_Witness ==
  /\ output.returned
  /\ ~input.src.readable
  /\ input.src.grammar = "parsed"


\* ================================================= the ids of one batch
\* The identifiers _embed_and_store makes for one batch of chunks, in which
\* chunks may share file path and line range.

\* chunks of two files over two line ranges, with two texts
BatchChunks ==
  {Chunk(p, 1, e, <<<<c, 1>>>>, NoLanguage, NoSymbol) :
     p \in Paths, e \in {1, 2}, c \in Contents}

Batches == UNION {[1..n -> BatchChunks] : n \in 0..MaxBatch}

InitIds ==
  /\ input \in Batches
  /\ output = NoOutput
  /\ fs = [p \in Paths |-> NoFile]
  /\ hashes_file = << >>
  /\ collection = {}
  /\ pc = "idle"
  /\ NoRunInMemory
  /\ streak = 0
  /\ lost = {}
  /\ config = [max_chunk_lines |-> MaxChunkLines, chunk_overlap |-> ChunkOverlap]
  /\ hashes_form = "mapping"
  /\ observed = <<>>
  /\ error = "none"
  /\ parser_cache = {}
  /\ snapshot_file = [form |-> "absent", data |-> << >>]
  /\ session_diff = "none"

\* the ids list of _embed_and_store(store, chunks, config)
MakeIds ==
  /\ ~output.returned
  /\ output' = [returned |-> TRUE, value |-> UniqueIds(input)]
  /\ UNCHANGED input
  /\ UNCHANGED function_frame

NextIds == MakeIds

SpecIds == InitIds /\ [][NextIds]_vars

\* the raw ids of the chunks of a batch, in batch order
RawIds(chunks) == [i \in 1..Len(chunks) |-> ChunkId(chunks[i])]

\* the batch with nothing left of its chunks but what their raw ids hold
RawOnly(chunks) ==
  [i \in 1..Len(chunks) |->
     Chunk(chunks[i].file_path, chunks[i].start_line, chunks[i].end_line, <<>>,
           NoLanguage, NoSymbol)]

\* C18: in one batch the first chunk with a given raw id keeps it without a
\* suffix and the k-th further chunk with that raw id gets it with the suffix
\* #k; the ids depend on nothing but the order of the raw ids in the batch.
C18_SuffixByOrder ==
  output.returned =>
    LET ids == output.value
    IN /\ Len(ids) = Len(input)
       /\ \A i \in 1..Len(input) :
            /\ ids[i].raw = ChunkId(input[i])
            /\ ids[i].n = Cardinality({j \in 1..(i - 1) : ChunkId(input[j]) = ChunkId(input[i])})
       /\ UniqueIds(RawOnly(input)) = ids
       /\ \A m \in 0..Len(input) : UniqueIds(SubSeq(input, 1, m)) = SubSeq(ids, 1, m)

\* a batch of three chunks with one raw id has got its ids
C18_Witness ==
  /\ output.returned
  /\ Len(input) = 3
  /\ Cardinality(Range(RawIds(input))) = 1
  /\ [i \in 1..3 |-> output.value[i].n] = <<0, 1, 2>>


\* ========================================================= the parser cache
\* chunk_file called several times in one process or in several on a file
\* that does not change; other files of the same language are chunked in
\* between.

\* _get_parser that loads nothing when the language is in the cache and
\* returns None
GetParserNoneOnHit(cache, src) ==
  IF LanguageOf(src.grammar) \in cache THEN [parser |-> FALSE, cache |-> cache]
  ELSE IF src.grammar = "load_fails" THEN [parser |-> FALSE, cache |-> cache]
  ELSE [parser |-> TRUE, cache |-> cache \cup {LanguageOf(src.grammar)}]

\* _get_parser(language_name, module_name) for the language of src: whether
\* it returns a parser, and _parser_cache after it.  A cached parser is
\* returned as it is; a parser that loads is cached; a load that raises or
\* finds no language function returns None and caches nothing.
_get_parser(cache, src) ==
  IF LanguageOf(src.grammar) \in cache THEN [parser |-> TRUE, cache |-> cache]
  ELSE IF src.grammar = "load_fails" THEN [parser |-> FALSE, cache |-> cache]
  ELSE [parser |-> TRUE, cache |-> cache \cup {LanguageOf(src.grammar)}]

\* chunk_file in a process whose _parser_cache is cache: what it returns and
\* the cache after it.  _get_parser is reached only for a readable file with
\* lines whose extension is in EXTENSION_TO_LANGUAGE.
ChunkFileWithCache(cache, src, max_lines, overlap) ==
  IF ~src.readable \/ src.lines = <<>> \/ src.grammar = "none"
    THEN [result |-> chunk_source(src, max_lines, overlap), cache |-> cache]
  ELSE LET got == _get_parser(cache, src)
           met == IF ~got.parser THEN [src EXCEPT !.grammar = "load_fails"]
                  ELSE IF src.grammar = "load_fails" THEN [src EXCEPT !.grammar = "parsed"]
                  ELSE src
       IN [result |-> chunk_source(met, max_lines, overlap), cache |-> got.cache]

\* the files of SpecChunk of one line and one child less
CacheSources ==
  {Source(FALSE, <<>>, g, <<>>) : g \in {"none", "parsed"}} \cup
  UNION {UNION {{Source(TRUE, lines, g, cs) :
                   cs \in IF g = "parsed"
                            THEN {t \in Trees(lines) : Len(t) <= MaxChildren - 1}
                            ELSE {<<>>}} :
                  g \in Grammars} :
           lines \in UNION {Texts(n) : n \in 0..(MaxSourceLines - 1)}}

InitCache ==
  /\ input \in {[src |-> src, max_lines |-> m, overlap |-> o] :
                  src \in CacheSources,
                  m \in 1..MaxChunkLines, o \in 0..(MaxChunkLines - 1)}
  /\ input.overlap < input.max_lines
  /\ output = NoOutput
  /\ parser_cache = {}
  /\ observed = <<>>
  /\ fs = [p \in Paths |-> NoFile]
  /\ hashes_file = << >>
  /\ collection = {}
  /\ pc = "idle"
  /\ NoRunInMemory
  /\ streak = 0
  /\ lost = {}
  /\ config = [max_chunk_lines |-> MaxChunkLines, chunk_overlap |-> ChunkOverlap]
  /\ hashes_form = "mapping"
  /\ error = "none"
  /\ snapshot_file = [form |-> "absent", data |-> << >>]
  /\ session_diff = "none"

\* what the calls of chunk_file leave alone
cache_frame ==
  <<index_vars, config, window_calls, saves, registry_calls, hashes_form, error,
    snapshot_file, session_diff, input, output>>

\* chunk_file(path, max_lines=max_lines, overlap=overlap) on the file
CachedChunkFile ==
  /\ Len(observed) < MaxCalls
  /\ LET r == ChunkFileWithCache(parser_cache, input.src, input.max_lines, input.overlap)
     IN /\ observed' = Append(observed,
                              [cached |-> LanguageOf(input.src.grammar) \in parser_cache,
                               raised |-> r.result.raised,
                               chunks |-> r.result.chunks])
        /\ parser_cache' = r.cache
  /\ UNCHANGED cache_frame

\* chunk_file on another file of the same language, which loads the parser
OtherFileChunked ==
  /\ input.src.grammar # "none"
  /\ parser_cache' = _get_parser(parser_cache, input.src).cache
  /\ parser_cache' # parser_cache
  /\ UNCHANGED observed
  /\ UNCHANGED cache_frame

\* the process ends and another one starts: _parser_cache is empty again
ProcessRestart ==
  /\ parser_cache # {}
  /\ parser_cache' = {}
  /\ UNCHANGED observed
  /\ UNCHANGED cache_frame

NextCache ==
  \/ CachedChunkFile
  \/ OtherFileChunked
  \/ ProcessRestart

SpecCache == InitCache /\ [][NextCache]_vars

\* C25: the calls of chunk_file on the same unmodified file with the same
\* max_lines and overlap return identical chunk sequences, whether the parser
\* cache held the language before the call or not.
C25_SameFileSameChunks ==
  \A i, j \in 1..Len(observed) :
    /\ observed[i].chunks = observed[j].chunks
    /\ observed[i].raised = observed[j].raised

\* a file with a named node has been split by a call that loaded the parser
\* and by a call that found it in the cache
C25_Witness ==
  /\ Len(observed) = MaxCalls
  /\ ~observed[1].cached
  /\ observed[Len(observed)].cached
  /\ input.src.grammar = "parsed"
  /\ \E i \in 1..Len(observed[1].chunks) : observed[1].chunks[i].symbol # NoSymbol
  /\ Len(observed[1].chunks) >= 2

\* ============================================== index runs and sessions
\* index_project and the session functions of session.py on the same project:
\* both keep their file in .codescope, which collect_files leaves out
\* (IGNORE_DIRS), so neither file is a candidate of the other.
InitBoth ==
  /\ fs \in [Paths -> FileStates]
  /\ snapshot_file = [form |-> "absent", data |-> << >>]
  /\ session_diff = NothingReturned
  /\ error = "none"
  /\ parser_cache = {}
  /\ hashes_file = << >>
  /\ collection = {}
  /\ pc = "idle"
  /\ NoRunInMemory
  /\ streak = 0
  /\ lost = {}
  /\ config = [max_chunk_lines |-> MaxChunkLines, chunk_overlap |-> ChunkOverlap]
  /\ hashes_form = "mapping"
  /\ observed = <<>>
  /\ input = "none"
  /\ output = NoOutput

\* a file of the tree is deleted between two calls
FileRemoved ==
  /\ pc = "idle"
  /\ \E p \in Paths :
       /\ fs[p].exists
       /\ fs' = [fs EXCEPT ![p] = NoFile]
  /\ streak' = 0
  /\ UNCHANGED <<hashes_file, collection, pc, mode, files, hashes, diff_changed,
                 diff_deleted, diff_hashed, todo, all_chunks, result, ops, removed, lost>>
  /\ UNCHANGED <<config, window_calls, saves, registry_calls, other_vars>>

NextBoth ==
  \/ FileRemoved
  \/ StartFull
  \/ FullChunk
  \/ FullFinish
  \/ StartIncremental
  \/ IncrPurge
  \/ IncrChunk
  \/ IncrFinish
  \/ Return
  \/ take_snapshot
  \/ compute_diff
  \/ clear_snapshot

SpecBoth == InitBoth /\ [][NextBoth]_vars

\* a step of an index run
IndexStep ==
  \/ StartFull
  \/ FullChunk
  \/ FullFinish
  \/ StartIncremental
  \/ IncrPurge
  \/ IncrChunk
  \/ IncrFinish
  \/ Return

\* a call of a session function
SessionStep ==
  \/ take_snapshot
  \/ compute_diff
  \/ clear_snapshot

\* C29: the Hash Registry and the Session Snapshot are independent: the
\* session functions leave the registry (and the store) as it is and what
\* they persist and return is determined by the tree and the snapshot alone;
\* the steps of a full or incremental run leave the snapshot as it is, and so
\* does compute_diff; only the end of a run writes the registry and only
\* take_snapshot and clear_snapshot write the snapshot.
C29_RegistryAndSnapshotApart ==
  /\ [][SessionStep => UNCHANGED <<hashes_file, hashes_form, hashes, collection>>]_vars
  /\ [][IndexStep => UNCHANGED <<snapshot_file, session_diff>>]_vars
  /\ [][compute_diff => UNCHANGED snapshot_file]_vars
  /\ [][hashes_file' # hashes_file => (FullFinish \/ IncrFinish)]_vars
  /\ [][snapshot_file' # snapshot_file => (take_snapshot \/ clear_snapshot)]_vars
  /\ [][take_snapshot =>
          snapshot_file' = [form |-> "mapping",
                            data |-> [p \in {q \in Paths : fs[q].exists /\ fs[q].readable}
                                        |-> Sha256(fs[p].content)]]]_vars
  /\ [][compute_diff =>
          LET S == snapshot_file.data
              C == {q \in Paths : fs[q].exists /\ fs[q].readable}
          IN IF snapshot_file.form = "absent"
               THEN session_diff'.kind = "none"
               ELSE /\ session_diff'.kind = "diff"
                    /\ Range(session_diff'.modified)
                         = {p \in C \cap DOMAIN S : S[p] # Sha256(fs[p].content)}
                    /\ Range(session_diff'.created) = C \ DOMAIN S
                    /\ Range(session_diff'.deleted) = DOMAIN S \ C]_vars

\* a run has saved a registry while a snapshot is there, and a diff of the
\* session has reported a deleted file
C29_Witness ==
  /\ pc = "done"
  /\ hashes_file # << >>
  /\ snapshot_file.form = "mapping"
  /\ session_diff.op = "compute_diff"
  /\ session_diff.deleted # <<>>
  /\ DOMAIN snapshot_file.data # DOMAIN hashes_file

\* ------------------------------------------- claims on the Semantic Splitter
\* the children of the root that are of a semantic type, by position
SemanticChildren ==
  {k \in 1..Len(input.src.children) : input.src.children[k].semantic}

\* the file's lines first..last (1-indexed) of a node
NodeLines(node) == SubSeq(input.src.lines, node.start + 1, node.end + 1)

\* a semantic child spans at most max_lines lines
Fits(node) == node.end - node.start + 1 <= input.max_lines

\* what the claim says a semantic child yields: one chunk of exactly its
\* lines under its name, or the Window Splitter's slices of exactly its lines
YieldOf(node) ==
  IF Fits(node)
    THEN <<Chunk("", node.start + 1, node.end + 1, NodeLines(node), "lang", node.name)>>
    ELSE _sliding_window(NodeLines(node), node.start, input.max_lines, input.overlap,
                         "lang", node.name)

\* sub is a run of consecutive elements of sq
OccursIn(sub, sq) ==
  \E j \in 0..(Len(sq) - Len(sub)) : SubSeq(sq, j + 1, j + Len(sub)) = sub

\* C21: a semantic child of at most max_lines lines yields exactly one
\* chunk, of exactly the node's first to last line and with the node's name;
\* a larger one yields the Window Splitter's slices of exactly its lines,
\* each within the node's range and of at most max_lines lines.
C21_NodeChunks ==
  (output.returned /\ input.src.readable /\ input.src.grammar = "parsed") =>
    LET chunks == output.value.chunks
        children == input.src.children
    IN /\ \A k \in SemanticChildren :
            LET y == YieldOf(children[k])
            IN /\ OccursIn(y, chunks)
               /\ Cardinality({i \in 1..Len(chunks) : chunks[i] = y[1]})
                    = Cardinality({j \in SemanticChildren : YieldOf(children[j])[1] = y[1]})
               /\ \A i \in 1..Len(y) :
                    /\ children[k].start + 1 <= y[i].start_line
                    /\ y[i].end_line <= children[k].end + 1
                    /\ y[i].end_line - y[i].start_line + 1 <= input.max_lines
               /\ y[1].start_line = children[k].start + 1
               /\ y[Len(y)].end_line = children[k].end + 1
       /\ Cardinality({i \in 1..Len(chunks) : chunks[i].symbol # NoSymbol})
            = Cardinality(SemanticChildren)

\* a file with a semantic child that fits and one that does not has been split
C21_Witness ==
  /\ output.returned
  /\ input.src.readable
  /\ input.src.grammar = "parsed"
  /\ \E k \in SemanticChildren : Fits(input.src.children[k])
  /\ \E k \in SemanticChildren : ~Fits(input.src.children[k])
  /\ Len(output.value.chunks) >= 3

\* the value of last before child k is processed: the row after the most
\* recently processed semantic child, the first row if there is none
LastBefore(k) ==
  LET earlier == {j \in SemanticChildren : j < k}
  IN IF earlier = {} THEN 0
     ELSE input.src.children[CHOOSE j \in earlier : \A i \in earlier : i <= j].end + 1

\* the value of last after the last child
LastFinal == LastBefore(Len(input.src.children) + 1)

\* some line of a..b (1-indexed) has text that is not whitespace
HasText(a, b) == \E i \in a..b : input.src.lines[i] # BlankLine

\* the chunks of the result with the range a..b and no symbol
UnnamedAt(a, b) ==
  {i \in 1..Len(output.value.chunks) :
     /\ output.value.chunks[i].start_line = a
     /\ output.value.chunks[i].end_line = b
     /\ output.value.chunks[i].symbol = NoSymbol}

\* the ranges of the gaps before the semantic children and of the trailing region
GapRanges ==
  {<<LastBefore(k) + 1, input.src.children[k].start>> :
     k \in {j \in SemanticChildren : input.src.children[j].start > LastBefore(j)}}
  \cup {<<LastFinal + 1, Len(input.src.lines)>>}

C24_ChunkIsItsLines ==
  (output.returned /\ input.src.readable /\ Len(input.src.lines) >= 1) =>
    \A i \in 1..Len(output.value.chunks) :
      LET c == output.value.chunks[i]
      IN /\ 1 <= c.start_line
         /\ c.start_line <= c.end_line
         /\ c.end_line <= Len(input.src.lines)
         /\ c.content = SubSeq(input.src.lines, c.start_line, c.end_line)

\* a file of several lines has been split into a gap chunk, the slices of a
\* node and a trailing chunk
C24_Witness ==
  /\ output.returned
  /\ input.src.readable
  /\ input.src.grammar = "parsed"
  /\ Len(input.src.lines) = MaxSourceLines
  /\ \E k \in SemanticChildren : ~Fits(input.src.children[k])
  /\ UnnamedAt(1, 1) # {}
  /\ UnnamedAt(Len(input.src.lines), Len(input.src.lines)) # {}
  /\ Len(output.value.chunks) >= 4

\* ---------------------------------------------- the symbol of the slices
\* C23: the Window Splitter puts the symbol it is given on the first chunk
\* it produces and on no other chunk: every later slice has no symbol (so of
\* the slices of a semantic node larger than max_lines, which are the Window
\* Splitter's for the node's name, only the first carries the name).
C23_SymbolOnFirstOnly ==
  output.returned =>
    /\ Len(output.value) >= 1
    /\ output.value[1].symbol = input.symbol
    /\ \A i \in 2..Len(output.value) : output.value[i].symbol = NoSymbol

\* the lines of a named node have been split into several slices
C23_Witness ==
  /\ output.returned
  /\ input.symbol = "f"
  /\ input.offset = 1
  /\ Len(output.value) >= 3
  /\ output.value[1].symbol = "f"

\* ------------------------------------------ claims on the session tracker
\* the candidates that can be read now
ReadableNow == {p \in Paths : fs[p].exists /\ fs[p].readable}

\* C26: the snapshot take_snapshot persists is a mapping of exactly the
\* candidates that can be read now, each to the hash of its current content;
\* nothing of an earlier snapshot is left in it.
C26_SnapshotIsCurrentTree ==
  session_diff.op = "take_snapshot" =>
    /\ error = "none"
    /\ snapshot_file.form = "mapping"
    /\ DOMAIN snapshot_file.data = ReadableNow
    /\ \A p \in ReadableNow : snapshot_file.data[p] = Sha256(fs[p].content)
    /\ session_diff.tracked = Cardinality(ReadableNow)

\* a snapshot has been taken of a tree with one readable file, one path
\* being gone or unreadable
C26_Witness ==
  /\ session_diff.op = "take_snapshot"
  /\ Cardinality(ReadableNow) = 1
  /\ \E p \in Paths : ~fs[p].exists
  /\ session_diff.tracked = 1

\* C27: for a snapshot S and the readable candidates C, compute_diff returns
\* modified = the paths of both whose hashes differ, created = C \ S and
\* deleted = S \ C, each sorted, no path in two of them and no path of equal
\* hash in any; a diff of a tree equal to the snapshot is empty.
C27_DiffOfSnapshot ==
  (session_diff.op = "compute_diff" /\ snapshot_file.form = "mapping") =>
    LET S == snapshot_file.data
        modified == Range(session_diff.modified)
        created == Range(session_diff.created)
        deleted == Range(session_diff.deleted)
    IN /\ session_diff.kind = "diff"
       /\ error = "none"
       /\ modified = {p \in ReadableNow \cap DOMAIN S : S[p] # Sha256(fs[p].content)}
       /\ created = ReadableNow \ DOMAIN S
       /\ deleted = DOMAIN S \ ReadableNow
       /\ StrictlyIncreasing(session_diff.modified)
       /\ StrictlyIncreasing(session_diff.created)
       /\ StrictlyIncreasing(session_diff.deleted)
       /\ modified \cap created = {}
       /\ modified \cap deleted = {}
       /\ created \cap deleted = {}
       /\ \A p \in ReadableNow \cap DOMAIN S :
            S[p] = Sha256(fs[p].content) => p \notin modified \cup created \cup deleted
       /\ (DOMAIN S = ReadableNow /\ \A p \in ReadableNow : S[p] = Sha256(fs[p].content))
            => /\ session_diff.modified = <<>>
               /\ session_diff.created = <<>>
               /\ session_diff.deleted = <<>>

\* a diff has reported one file as modified and the other as deleted
C27_Witness ==
  /\ session_diff.op = "compute_diff"
  /\ snapshot_file.form = "mapping"
  /\ Len(session_diff.modified) = 1
  /\ Len(session_diff.deleted) = 1
  /\ session_diff.created = <<>>

\* take_snapshot, compute_diff and clear_snapshot in any order over a tree
\* that is edited between the calls; nothing else writes the snapshot file
NextSessionOps ==
  \/ SessionEdit
  \/ take_snapshot
  \/ compute_diff
  \/ clear_snapshot

SpecSessionOps == InitSession /\ [][NextSessionOps]_vars

\* C28: over any sequence of snapshot, diff and clear, the snapshot file
\* exists exactly when a snapshot was taken more recently than any clear
\* (take_snapshot leaves it there, clear_snapshot leaves it absent, nothing
\* else touches it); compute_diff returns None when it is absent and a
\* SessionDiff when it is there, and clear_snapshot without a snapshot changes
\* nothing and raises nothing.
C28_SessionLifecycle ==
  /\ [](snapshot_file.form \in {"absent", "mapping"} /\ error = "none")
  /\ [](session_diff.op = "compute_diff" =>
          session_diff.kind = (IF snapshot_file.form = "absent" THEN "none" ELSE "diff"))
  /\ [][take_snapshot => snapshot_file'.form = "mapping"]_vars
  /\ [][clear_snapshot =>
          /\ snapshot_file'.form = "absent"
          /\ session_diff'.kind = "none"
          /\ error' = "none"
          /\ snapshot_file.form = "absent" => UNCHANGED <<snapshot_file, fs>>]_vars
  /\ [][(snapshot_file' # snapshot_file) => (take_snapshot \/ clear_snapshot)]_vars

\* a diff that reports a created file has been returned for a snapshot that
\* is there
C28_Witness ==
  /\ session_diff.op = "compute_diff"
  /\ session_diff.kind = "diff"
  /\ snapshot_file.form = "mapping"
  /\ session_diff.created # <<>>

\* ------------------------------------- what an incremental run leaves alone
\* the candidates the diff of the run did not classify as changed
Unchanged == Range(files) \ Range(diff_changed)

\* how often the run has called registry.<op>(p)
Calls(op, p) ==
  Cardinality({i \in 1..Len(registry_calls) : registry_calls[i] = [op |-> op, arg |-> p]})

\* C30: an incremental run issues no store deletion and no upsert for a
\* file classified unchanged and leaves the stored hash of such a file as it
\* was; it calls registry.update exactly once for each changed file and for
\* no other, and registry.remove exactly once for each deleted path and for
\* no other.
C30_UnchangedUntouched ==
  /\ [](mode = "incremental" =>
          /\ \A i \in 1..Len(ops) :
               /\ ops[i].op # "clear"
               /\ ops[i].op = "delete" => ops[i].arg \notin Unchanged
          /\ \A i \in 1..Len(all_chunks) : all_chunks[i].file_path \notin Unchanged
          /\ \A p \in Paths :
               /\ Calls("update", p) <= (IF p \in Range(diff_changed) THEN 1 ELSE 0)
               /\ Calls("remove", p) <= (IF p \in Range(diff_deleted) THEN 1 ELSE 0)
          /\ Len(registry_calls)
               = Cardinality({p \in Paths : Calls("update", p) = 1})
                   + Cardinality({p \in Paths : Calls("remove", p) = 1})
          /\ pc \in {"purge", "chunk"} =>
               \A p \in Unchanged :
                 /\ p \in DOMAIN hashes <=> p \in DOMAIN hashes_file
                 /\ p \in DOMAIN hashes_file => hashes[p].hash = hashes_file[p].hash
          /\ pc = "done" =>
               \A p \in Paths :
                 /\ Calls("update", p) = (IF p \in Range(diff_changed) THEN 1 ELSE 0)
                 /\ Calls("remove", p) = (IF p \in Range(diff_deleted) THEN 1 ELSE 0))
  /\ [][IncrFinish =>
          \A p \in Unchanged :
            /\ p \in DOMAIN hashes_file' <=> p \in DOMAIN hashes_file
            /\ p \in DOMAIN hashes_file => hashes_file'[p].hash = hashes_file[p].hash]_vars

\* an incremental run has returned that found one file changed and one
\* unchanged with a stored hash, and updated the registry for the first only
C30_Witness ==
  /\ pc = "done"
  /\ mode = "incremental"
  /\ Len(files) = 2
  /\ Len(diff_changed) = 1
  /\ registry_calls = <<[op |-> "update", arg |-> diff_changed[1]]>>
  /\ \E p \in Unchanged : p \in DOMAIN hashes_file
  /\ \E i \in 1..Len(ops) : ops[i].op = "upsert"

\* ========================================================== file discovery
\* collect_files applied once to a project tree.  The names of the model
\* are numbers in their sort order: 0 "home", 1 "build" (in IGNORE_DIRS),
\* 2 "lib", 3 "a.py" (suffix in the allowlist), 4 "b.bin" (suffix not in it).
IgnoreDirs == {1}
DirNames == {1, 2}
FileNames == {3, 4}

\* path.suffix in config.extensions
AllowedSuffix(name) == name = 3

\* the paths below the project root an entry can have, as tuples of parts
RelPaths ==
  {<<f>> : f \in FileNames} \cup {<<d, f>> : d \in DirNames, f \in FileNames}

\* a tree gives each of them a regular file, a directory, or nothing
EntryKinds == {"absent", "file", "dir"}

\* the project root is /home or /build
RootParts == {<<0>>, <<1>>}

\* config.ignore_spec as the set of relative paths match_file accepts: none
\* (no .codescopeignore, or a pattern that matches nothing here), the
\* pattern "/a.py", the pattern "lib/"
IgnoreSpecs == {{}, {<<3>>}, {<<2, 3>>, <<2, 4>>}}

\* project_root.rglob("*"): every entry below the root, directories included
rglob(tree) ==
  {q \in RelPaths : tree[q] # "absent"}
    \cup {<<d>> : d \in {e \in DirNames : \E f \in FileNames : tree[<<e, f>>] # "absent"}}

\* path.is_file()
is_file(tree, q) == q \in RelPaths /\ tree[q] = "file"

\* the order of Path objects: by their parts, a prefix first
PathKey(q) == 10 * q[1] + (IF Len(q) > 1 THEN q[2] ELSE 0)

RECURSIVE SortedPaths(_)
\* sorted(files)
SortedPaths(S) ==
  IF S = {} THEN <<>>
  ELSE LET first == CHOOSE q \in S : \A r \in S : PathKey(q) <= PathKey(r)
       IN <<first>> \o SortedPaths(S \ {first})

\* collect_files(config) for a project root, its tree and config.ignore_dirs;
\* path.parts are the parts of the absolute path: those of the root, then
\* those below it.  config.ignore_spec is not an argument: the function does
\* not look at it.
collect_files_walk(root, tree, ignore_dirs) ==
  SortedPaths({q \in rglob(tree) :
                 /\ ~(\E i \in 1..Len(root \o q) : (root \o q)[i] \in ignore_dirs)
                 /\ is_file(tree, q)
                 /\ AllowedSuffix(q[Len(q)])})

InitDiscover ==
  /\ input \in {[root |-> root, tree |-> tree, ignore_spec |-> spec] :
                  root \in RootParts, tree \in [RelPaths -> EntryKinds],
                  spec \in IgnoreSpecs}
  /\ output = NoOutput
  /\ fs = [p \in Paths |-> NoFile]
  /\ hashes_file = << >>
  /\ collection = {}
  /\ pc = "idle"
  /\ NoRunInMemory
  /\ streak = 0
  /\ lost = {}
  /\ config = [max_chunk_lines |-> MaxChunkLines, chunk_overlap |-> ChunkOverlap]
  /\ hashes_form = "mapping"
  /\ observed = <<>>
  /\ error = "none"
  /\ parser_cache = {}
  /\ snapshot_file = [form |-> "absent", data |-> << >>]
  /\ session_diff = "none"

\* files = collect_files(config)
Discover ==
  /\ ~output.returned
  /\ output' = [returned |-> TRUE,
                value |-> collect_files_walk(input.root, input.tree, IgnoreDirs)]
  /\ UNCHANGED input
  /\ UNCHANGED function_frame

NextDiscover == Discover

SpecDiscover == InitDiscover /\ [][NextDiscover]_vars

\* C31: file discovery returns, sorted and without duplicates, exactly the
\* regular files under the project root whose suffix is in the allowlist,
\* that have no directory component below the root in ignore_dirs, and that
\* match no pattern of .codescope/.codescopeignore.
C31_DiscoveryAsClaimed ==
  output.returned =>
    output.value =
      SortedPaths({q \in RelPaths :
                     /\ input.tree[q] = "file"
                     /\ AllowedSuffix(q[Len(q)])
                     /\ \A i \in 1..(Len(q) - 1) : q[i] \notin IgnoreDirs
                     /\ q \notin input.ignore_spec})

\* ============================================ runs over a flickering tree
\* Incremental runs, one at a time and each to its end, over a tree whose
\* files are readable whenever no run looks at them; while a run processes a
\* file, one of its calls on the file may find it unreadable (read_bytes and
\* read_text raise OSError) or gone (stat raises too).
TransientKinds == {"ok", "unreadable", "gone"}

\* the tree as a call sees it when file p is met in state kind
Perceived(disk, p, kind) ==
  IF kind = "gone" THEN [disk EXCEPT ![p] = NoFile]
  ELSE IF kind = "unreadable" THEN [disk EXCEPT ![p].readable = FALSE]
  ELSE disk

\* the tree as registry.diff sees it, every file met in its own state
PerceivedAll(disk, kinds) ==
  [p \in Paths |-> Perceived(disk, p, kinds[p])[p]]

\* the files of the tree, each absent or readable
ReadableStates == {NoFile} \cup {FileState(c, m, TRUE) : c \in Contents, m \in Mtimes}

InitTransient ==
  /\ fs \in [Paths -> ReadableStates]
  /\ hashes_file = << >>
  /\ collection = {}
  /\ pc = "idle"
  /\ NoRunInMemory
  /\ streak = 0
  /\ lost = {}
  /\ config = [max_chunk_lines |-> MaxChunkLines, chunk_overlap |-> ChunkOverlap]
  /\ NothingElse

\* between two runs a file is created, edited, touched or deleted
EditReadable ==
  /\ pc = "idle"
  /\ \E p \in Paths, st \in ReadableStates :
       /\ st # fs[p]
       /\ fs' = [fs EXCEPT ![p] = st]
  /\ streak' = 0
  /\ UNCHANGED <<hashes_file, collection, pc, mode, files, hashes, diff_changed,
                 diff_deleted, diff_hashed, todo, all_chunks, result, ops, removed, lost>>
  /\ UNCHANGED <<config, window_calls, saves, registry_calls, other_vars>>

\* index_project(full=False) through registry.diff, each file met by diff
\* in some state
StartIncrementalFlicker ==
  /\ pc = "idle"
  /\ hashes_form = "mapping"
  /\ mode' = "incremental"
  /\ \E kinds \in [Paths -> TransientKinds] :
       LET fl == collect_files(fs)
           d == diff(_load(hashes_form, hashes_file).hashes, fl, PerceivedAll(fs, kinds))
       IN /\ files' = fl
          /\ hashes' = d.hashes
          /\ diff_changed' = d.changed
          /\ diff_deleted' = d.deleted
          /\ diff_hashed' = d.hashed
          /\ todo' = d.changed
  /\ pc' = "purge"
  /\ UNCHANGED <<fs, hashes_file, collection, all_chunks, result, ops, removed,
                 streak, lost>>
  /\ UNCHANGED <<config, window_calls, saves, registry_calls, other_vars>>

\* one iteration of the loop over diff.changed: chunk_file and
\* registry.update each meet the file in some state
IncrChunkFlicker ==
  /\ pc = "chunk"
  /\ todo # <<>>
  /\ \E at_chunk \in TransientKinds, at_update \in TransientKinds :
       LET f == Head(todo)
           chunks == Stamp(chunk_file(Perceived(fs, f, at_chunk), f,
                                      config.max_chunk_lines, config.chunk_overlap), f)
       IN /\ window_calls' = window_calls \cup
               chunk_file_windows(Perceived(fs, f, at_chunk), f,
                                  config.max_chunk_lines, config.chunk_overlap)
          /\ collection' = delete_by_file(collection, f)
          /\ ops' = Append(ops, [op |-> "delete", arg |-> f])
          /\ removed' = removed \cup ({f} \cap StoredPaths(collection))
          /\ all_chunks' = all_chunks \o chunks
          /\ hashes' = update(hashes, f, Perceived(fs, f, at_update))
          /\ registry_calls' = Append(registry_calls, [op |-> "update", arg |-> f])
  /\ todo' = Tail(todo)
  /\ UNCHANGED <<fs, hashes_file, pc, mode, files, diff_changed, diff_deleted, diff_hashed,
                 result, streak, lost>>
  /\ UNCHANGED <<config, saves, other_vars>>

NextTransient ==
  \/ EditReadable
  \/ StartIncrementalFlicker
  \/ IncrPurge
  \/ IncrChunkFlicker
  \/ IncrFinish
  \/ Return

SpecTransient == InitTransient /\ [][NextTransient]_vars

\* C32: after every completed incremental run, for every path whose
\* registry entry holds hash h, the store holds the chunks extracted from the
\* content with hash h for that path.
C32_RegistryBackedByStore ==
  (pc = "done" /\ mode = "incremental") =>
    \A p \in DOMAIN hashes_file :
      HoldsExactly(collection, ChunksOfDigest(hashes_file[p].hash, p), p)

\* ============================================== runs against an editor
\* Incremental runs, one at a time and each to its end, while an editor
\* writes the files: every write changes content and mtime, and may fall
\* between any two calls a run makes on the file.

\* the files of the tree, all there and readable
WrittenStates == {FileState(c, m, TRUE) : c \in Contents, m \in Mtimes}

\* what a write makes of a file
Writes(st) ==
  {FileState(c, m, TRUE) : c \in Contents \ {st.content}, m \in Mtimes \ {st.mtime}}

\* the file when the next call of the run meets it: as it was, or written
After(st) == {st} \cup Writes(st)

InitRace ==
  /\ fs \in [Paths -> WrittenStates]
  /\ hashes_file = << >>
  /\ collection = {}
  /\ pc = "idle"
  /\ NoRunInMemory
  /\ streak = 0
  /\ lost = {}
  /\ config = [max_chunk_lines |-> MaxChunkLines, chunk_overlap |-> ChunkOverlap]
  /\ NothingElse

\* the editor writes a file, whatever the run is doing
EditorWrite ==
  /\ \E p \in Paths : \E st \in Writes(fs[p]) : fs' = [fs EXCEPT ![p] = st]
  /\ streak' = 0
  /\ UNCHANGED <<hashes_file, collection, pc, mode, files, hashes, diff_changed,
                 diff_deleted, diff_hashed, todo, all_chunks, result, ops, removed, lost>>
  /\ UNCHANGED <<config, window_calls, saves, registry_calls, other_vars>>

RECURSIVE DiffLoopRace(_, _, _, _, _, _)
\* for file in files: ... with file.stat() answered by the tree at1,
\* _hash_file(file) by at2 and the second file.stat() by at3
DiffLoopRace(acc, fl, i, at1, at2, at3) ==
  IF i > Len(fl) THEN acc
  ELSE DiffLoopRace(DiffFile(acc, fl[i], Stat(at1, fl[i]), _hash_file(at2, fl[i]),
                             Stat(at3, fl[i])),
                    fl, i + 1, at1, at2, at3)

\* index_project(full=False) through registry.diff, the editor writing
\* between the calls diff makes on a file
StartIncrementalRace ==
  /\ pc = "idle"
  /\ hashes_form = "mapping"
  /\ mode' = "incremental"
  /\ \E at2 \in [Paths -> WrittenStates], at3 \in [Paths -> WrittenStates] :
       /\ \A p \in Paths : at2[p] \in After(fs[p]) /\ at3[p] \in After(at2[p])
       /\ LET fl == collect_files(fs)
              acc == DiffLoopRace([changed |-> <<>>,
                                   hashes |-> _load(hashes_form, hashes_file).hashes,
                                   hashed |-> <<>>], fl, 1, fs, at2, at3)
          IN /\ files' = fl
             /\ hashes' = acc.hashes
             /\ diff_changed' = acc.changed
             /\ diff_deleted' = DiffDeleted(acc.hashes, fl)
             /\ diff_hashed' = acc.hashed
             /\ todo' = acc.changed
       /\ fs' = at3
       /\ streak' = IF at3 = fs THEN streak ELSE 0
  /\ pc' = "purge"
  /\ UNCHANGED <<hashes_file, collection, all_chunks, result, ops, removed, lost>>
  /\ UNCHANGED <<config, window_calls, saves, registry_calls, other_vars>>

\* one iteration of the loop over diff.changed, the editor writing between
\* chunk_file, the _hash_file of registry.update and its file.stat()
IncrChunkRace ==
  /\ pc = "chunk"
  /\ todo # <<>>
  /\ \E at_hash \in After(fs[Head(todo)]) :
       \E at_stat \in After(at_hash) :
         LET f == Head(todo)
             chunks == Stamp(chunk_file(fs, f, config.max_chunk_lines,
                                        config.chunk_overlap), f)
             seen == [fs EXCEPT ![f] = FileState(at_hash.content, at_stat.mtime, TRUE)]
         IN /\ window_calls' = window_calls \cup
                 chunk_file_windows(fs, f, config.max_chunk_lines, config.chunk_overlap)
            /\ collection' = delete_by_file(collection, f)
            /\ ops' = Append(ops, [op |-> "delete", arg |-> f])
            /\ removed' = removed \cup ({f} \cap StoredPaths(collection))
            /\ all_chunks' = all_chunks \o chunks
            /\ hashes' = update(hashes, f, seen)
            /\ registry_calls' = Append(registry_calls, [op |-> "update", arg |-> f])
            /\ fs' = [fs EXCEPT ![f] = at_stat]
            /\ streak' = IF at_stat = fs[f] THEN streak ELSE 0
  /\ todo' = Tail(todo)
  /\ UNCHANGED <<hashes_file, pc, mode, files, diff_changed, diff_deleted, diff_hashed,
                 result, lost>>
  /\ UNCHANGED <<config, saves, other_vars>>

NextRace ==
  \/ EditorWrite
  \/ StartIncrementalRace
  \/ IncrPurge
  \/ IncrChunkRace
  \/ IncrFinish
  \/ Return

SpecRace == InitRace /\ [][NextRace]_vars

\* C33: once the editor's writes have stopped, the next incremental run that
\* completes leaves in the store, for every file, the chunks of its final
\* content (here: the second run completed since the last write, which
\* started after it).
C33_ConvergesAfterWrites ==
  (pc = "done" /\ mode = "incremental" /\ streak = 2) =>
    \A p \in Range(files) : HoldsExactly(collection, Extraction(p), p)

\* ================================== the loop of the Window Splitter
\* _sliding_window one iteration of its while loop at a time, for any
\* overlap, below max_lines or not.

\* iterations followed before the loop is left running
MaxIterations == MaxWindowLines + 2

\* lines[a:b] of Python for any integers a and b: a negative index counts
\* from the end of the list, an index out of range is clamped
PySlice(lines, a, b) ==
  LET n == Len(lines)
      Clamp(k) == IF k < 0 THEN (IF n + k < 0 THEN 0 ELSE n + k) ELSE Min(k, n)
  IN IF Clamp(a) < Clamp(b) THEN SubSeq(lines, Clamp(a) + 1, Clamp(b)) ELSE <<>>

\* i = end - overlap with no test of end
NextIndexAlwaysBack(i, n, max_lines, overlap) == Min(i + max_lines, n) - overlap

\* i = end - overlap if end < len(lines) else end
NextIndex(i, n, max_lines, overlap) ==
  LET end == Min(i + max_lines, n)
  IN IF end < n THEN end - overlap ELSE end

LoopInputs ==
  [lines : {Text(n) : n \in 0..MaxWindowLines}, offset : {0},
   max_lines : 1..MaxChunkLines, overlap : 0..(MaxChunkLines + 1), symbol : {NoSymbol}]

InitLoop ==
  /\ input \in LoopInputs
  /\ output = [returned |-> FALSE, value |-> <<>>, i |-> 0]
  /\ fs = [p \in Paths |-> NoFile]
  /\ hashes_file = << >>
  /\ collection = {}
  /\ pc = "idle"
  /\ NoRunInMemory
  /\ streak = 0
  /\ lost = {}
  /\ config = [max_chunk_lines |-> MaxChunkLines, chunk_overlap |-> ChunkOverlap]
  /\ hashes_form = "mapping"
  /\ observed = <<>>
  /\ error = "none"
  /\ parser_cache = {}
  /\ snapshot_file = [form |-> "absent", data |-> << >>]
  /\ session_diff = "none"

\* one pass through the body of while i < len(lines)
WindowIteration ==
  /\ ~output.returned
  /\ output.i < Len(input.lines)
  /\ Len(output.value) < MaxIterations
  /\ LET i == output.i
         n == Len(input.lines)
         end == Min(i + input.max_lines, n)
         c == Chunk("", input.offset + i + 1, input.offset + end,
                    PySlice(input.lines, i, end), NoLanguage,
                    IF i = 0 THEN input.symbol ELSE NoSymbol)
     IN output' = [returned |-> FALSE, value |-> Append(output.value, c),
                   i |-> NextIndex(i, n, input.max_lines, input.overlap)]
  /\ UNCHANGED input
  /\ UNCHANGED function_frame

\* the loop test fails: return chunks
WindowReturn ==
  /\ ~output.returned
  /\ ~(output.i < Len(input.lines))
  /\ output' = [output EXCEPT !.returned = TRUE]
  /\ UNCHANGED input
  /\ UNCHANGED function_frame

NextLoop ==
  \/ WindowIteration
  \/ WindowReturn

\* the interpreter goes on executing the function
SpecLoop == InitLoop /\ [][NextLoop]_vars /\ WF_vars(NextLoop)

\* an iteration has just been made
Iterated == Len(output'.value) = Len(output.value) + 1

\* C34: for max_lines >= 1 and a finite list of lines the Window Splitter
\* returns whenever 0 <= overlap < max_lines: every iteration raises the
\* start index and there are at most n chunks for n lines; and it never
\* returns when overlap >= max_lines and the list is longer than max_lines:
\* no iteration raises the start index, which stays below n.
C34_WindowTermination ==
  /\ [][(Iterated /\ input.overlap < input.max_lines) =>
          /\ output'.i > output.i
          /\ Len(output'.value) <= Len(input.lines)]_vars
  /\ (input.overlap < input.max_lines) => <>(output.returned)
  /\ [][(Iterated /\ input.overlap >= input.max_lines
                  /\ Len(input.lines) > input.max_lines) =>
          /\ output'.i <= output.i
          /\ output'.i < Len(input.lines)]_vars
  /\ (input.overlap >= input.max_lines /\ Len(input.lines) > input.max_lines)
       => [](~output.returned)

\* a list split with an overlap into as many chunks as it can give
C34_Witness ==
  /\ output.returned
  /\ input.overlap = 1
  /\ input.max_lines = 2
  /\ Len(input.lines) = MaxWindowLines
  /\ Len(output.value) = MaxWindowLines - 1

\* ========================================= the ids of a batch as text
\* The identifiers of one batch as the strings _embed_and_store hands to
\* the store.  A string is the sequence of its characters.

DigitChars == <<"0", "1", "2", "3", "4", "5", "6", "7", "8", "9">>

RECURSIVE DecimalOf(_)
\* the decimal digits of n >= 0
DecimalOf(n) ==
  IF n < 10 THEN <<DigitChars[n + 1]>>
  ELSE DecimalOf(n \div 10) \o <<DigitChars[(n % 10) + 1]>>

\* str(n) of Python, as an f-string formats an int
Str(n) == IF n < 0 THEN <<"-">> \o DecimalOf(0 - n) ELSE DecimalOf(n)

\* Chunk.id: f"{self.file_path}:{self.start_line}-{self.end_line}"
IdText(c) == c.file_path \o <<":">> \o Str(c.start_line) \o <<"-">> \o Str(c.end_line)

\* f"{raw_id}{count}": the count appended without the #
SuffixedNoSeparator(raw_id, count) == raw_id \o Str(count)

\* f"{raw_id}#{count}"
Suffixed(raw_id, count) == raw_id \o <<"#">> \o Str(count)

\* the ids list of _embed_and_store, the dict seen keyed by the raw strings
UniqueIdTexts(chunks) ==
  LET counted == IdsLoop([i \in 1..Len(chunks) |-> IdText(chunks[i])], 1, << >>, <<>>)
  IN [i \in 1..Len(chunks) |->
        IF counted[i].n > 0 THEN Suffixed(counted[i].raw, counted[i].n)
        ELSE counted[i].raw]

\* relative paths, with the characters the identifiers are built with
TextPaths == {<<"a">>, <<"a", "#", "1">>, <<"a", ":", "1", "-", "1">>}

\* line numbers of one and of two digits
TextLines == {1, 11}

TextChunks ==
  {Chunk(p, r[1], r[2], <<>>, NoLanguage, NoSymbol) :
     p \in TextPaths, r \in {q \in TextLines \X TextLines : q[1] <= q[2]}}

TextBatches == UNION {[1..n -> TextChunks] : n \in 0..MaxBatch}

InitIdTexts ==
  /\ input \in TextBatches
  /\ output = NoOutput
  /\ fs = [p \in Paths |-> NoFile]
  /\ hashes_file = << >>
  /\ collection = {}
  /\ pc = "idle"
  /\ NoRunInMemory
  /\ streak = 0
  /\ lost = {}
  /\ config = [max_chunk_lines |-> MaxChunkLines, chunk_overlap |-> ChunkOverlap]
  /\ hashes_form = "mapping"
  /\ observed = <<>>
  /\ error = "none"
  /\ parser_cache = {}
  /\ snapshot_file = [form |-> "absent", data |-> << >>]
  /\ session_diff = "none"

\* the ids list of _embed_and_store(store, chunks, config), as strings
MakeIdTexts ==
  /\ ~output.returned
  /\ output' = [returned |-> TRUE, value |-> UniqueIdTexts(input)]
  /\ UNCHANGED input
  /\ UNCHANGED function_frame

NextIdTexts == MakeIdTexts

SpecIdTexts == InitIdTexts /\ [][NextIdTexts]_vars

\* the i-th chunk of the batch got a suffix: an earlier chunk has its raw id
GotSuffix(chunks, i) == \E j \in 1..(i - 1) : IdText(chunks[j]) = IdText(chunks[i])

\* C35: the identifiers handed to the store in one batch are pairwise
\* distinct whatever the chunks are, and an identifier with a suffix equals
\* neither the raw nor the final identifier of any other chunk of the batch.
C35_IdsDistinct ==
  output.returned =>
    LET ids == output.value
    IN /\ Len(ids) = Len(input)
       /\ \A i \in 1..Len(ids) : \A j \in 1..Len(ids) :
            i # j => /\ ids[i] # ids[j]
                     /\ GotSuffix(input, i) => ids[i] # IdText(input[j])

\* a batch with the chunk a:1-1 twice, whose second id is a:1-1#1, and the
\* chunk a:1-11
C35_Witness ==
  /\ output.returned
  /\ Len(input) = 3
  /\ IdText(input[1]) = <<"a", ":", "1", "-", "1">>
  /\ IdText(input[2]) = IdText(input[1])
  /\ IdText(input[3]) = <<"a", ":", "1", "-", "1", "1">>
  /\ output.value[2] = <<"a", ":", "1", "-", "1", "#", "1">>

\* ==================================================== the size of chunks
\* C36: every chunk chunk_file returns spans at most max_lines lines, the
\* chunks of gaps and of the trailing region included.
C36_ChunksWithinMaxLines ==
  output.returned =>
    \A i \in 1..Len(output.value.chunks) :
      output.value.chunks[i].end_line - output.value.chunks[i].start_line + 1
        <= input.max_lines


\* ============================== what the Semantic Splitter leaves out
\* chunk_file returns what _chunk_with_treesitter made: its chunks carry the
\* language, those of the Window Splitter called by chunk_file do not
SemanticResultUsed ==
  /\ output.returned
  /\ input.src.readable
  /\ input.src.grammar = "parsed"
  /\ output.value.chunks # <<>>
  /\ \A i \in 1..Len(output.value.chunks) : output.value.chunks[i].language # NoLanguage

\* C37: when the result of the Semantic Splitter is used, every line with
\* text that is not whitespace lies in a chunk, and a line in no chunk lies
\* in a gap or in the trailing region whose lines are all whitespace.
C37_OnlyBlankRegionsLeftOut ==
  SemanticResultUsed =>
    LET lines == input.src.lines
        chunks == output.value.chunks
    IN /\ \A i \in 1..Len(lines) : lines[i] # BlankLine => i \in Covered(chunks)
       /\ \A i \in (1..Len(lines)) \ Covered(chunks) :
            \E r \in GapRanges : /\ r[1] <= i /\ i <= r[2]
                                 /\ ~HasText(r[1], r[2])

\* two nodes with a blank line between them and a blank line after them:
\* both blank lines are left out, in a gap and in the trailing region
C37_Witness ==
  /\ SemanticResultUsed
  /\ input.src.lines = <<<<1, 1>>, BlankLine, <<1, 3>>, BlankLine>>
  /\ Len(input.src.children) = 2
  /\ SemanticChildren = {1, 2}
  /\ Covered(output.value.chunks) = {1, 3}


\* ================================================ what diff does to _hashes
\* C38: diff adds no key to the registry, removes none and changes no stored
\* hash; all it changes is the stored mtime of an entry whose stored hash is
\* the hash _hash_file gave for the file.
C38_DiffOnlyRefreshesMtime ==
  pc \in {"diff", "diffed"} =>
    /\ DOMAIN hashes = DOMAIN _load(hashes_form, hashes_file).hashes
    /\ \A p \in DOMAIN hashes :
         LET loaded == _load(hashes_form, hashes_file).hashes[p]
         IN /\ hashes[p].hash = loaded.hash
            /\ hashes[p].mtime # loaded.mtime =>
                 \E i \in 1..Len(observed) : /\ observed[i].file = p
                                             /\ observed[i].hash = loaded.hash
                                             /\ observed[i].stored

\* diff has returned: one entry has a new mtime, another file is in changed
C38_Witness ==
  /\ pc = "diffed"
  /\ \E p \in DOMAIN hashes : hashes[p].mtime # hashes_file[p].mtime
  /\ \E p \in DOMAIN hashes : p \in Range(diff_changed) /\ hashes[p] = hashes_file[p]
  /\ diff_deleted = <<>>


\* ===================================== begin_session and end_session
\* The two session tools of the MCP server, called one at a time on a
\* project that is edited between the calls.  end_session runs
\* index_project, whose steps are those of an incremental run.

\* _validate_openai(config): the error string, or None
_validate_openai(cfg) ==
  IF cfg.embedding_provider = "openai" /\ cfg.openai_api_key = ""
    THEN "Error: OpenAI provider requires OPENAI_API_KEY environment variable."
    ELSE "None"

\* what a tool returns: the status of its JSON reply, or which error string,
\* or that an exception left it
Reply(status, modified, created, deleted, count) ==
  [status |-> status, modified |-> modified, created |-> created,
   deleted |-> deleted, count |-> count]

NoReply == Reply("none", <<>>, <<>>, <<>>, 0)

\* compute_diff(config) as a value: None, an exception or the SessionDiff
SessionDiffOf(snap, disk) ==
  LET empty == [modified |-> <<>>, created |-> <<>>, deleted |-> <<>>]
  IN IF snap.form \in {"absent", "invalid_json"} THEN [kind |-> "none", diff |-> empty]
     ELSE IF snap.form \in {"bad_encoding", "not_mapping"}
       THEN [kind |-> "raised", diff |-> empty]
     ELSE [kind |-> "diff", diff |-> SessionDiff(snap.data, current_hashes(disk))]

\* len(diff.modified) + len(diff.created) + len(diff.deleted)
total_changes(d) == Len(d.modified) + Len(d.created) + Len(d.deleted)

\* the files of a project between two calls: not there, or there and
\* readable, each content with the mtime of the write that made it
ProjectStates == {NoFile} \cup {FileState(c, Min(c, MaxMtime), TRUE) : c \in Contents}

InitEndSession ==
  /\ fs \in [Paths -> ProjectStates]
  /\ config \in [max_chunk_lines : {MaxChunkLines}, chunk_overlap : {ChunkOverlap},
                 embedding_provider : {"local", "openai"}, openai_api_key : {"", "sk"}]
  /\ config.embedding_provider = "local" => config.openai_api_key = ""
  /\ snapshot_file = [form |-> "absent", data |-> << >>]
  /\ session_diff = NothingReturned
  /\ output = [returned |-> FALSE, value |-> NoReply]
  /\ error = "none"
  /\ parser_cache = {}
  /\ hashes_file = << >>
  /\ collection = {}
  /\ pc = "idle"
  /\ NoRunInMemory
  /\ streak = 0
  /\ lost = {}
  /\ hashes_form = "mapping"
  /\ observed = <<>>
  /\ input = "none"

\* an editor writes, creates or deletes a file between two calls
ProjectEdit ==
  /\ pc = "idle"
  /\ \E p \in Paths, st \in ProjectStates :
       /\ st # fs[p]
       /\ fs' = [fs EXCEPT ![p] = st]
  /\ UNCHANGED <<hashes_file, collection, pc, mode, files, hashes, diff_changed,
                 diff_deleted, diff_hashed, todo, all_chunks, result, ops, removed,
                 streak, lost>>
  /\ UNCHANGED <<config, window_calls, saves, registry_calls, other_vars>>

\* session_snapshot.json is overwritten between two calls with something
\* that is no snapshot
SnapshotOverwritten ==
  /\ pc = "idle"
  /\ snapshot_file.form = "mapping"
  /\ \E form \in {"invalid_json", "bad_encoding", "not_mapping"} :
       snapshot_file' = [form |-> form, data |-> << >>]
  /\ UNCHANGED index_vars
  /\ UNCHANGED <<config, window_calls, saves, registry_calls, hashes_form, observed,
                 error, parser_cache, session_diff, input, output>>

\* begin_session(project_path)
begin_session ==
  /\ pc = "idle"
  /\ snapshot_file' = [form |-> "mapping", data |-> current_hashes(fs)]
  /\ output' = [returned |-> TRUE,
                value |-> Reply("session_started", <<>>, <<>>, <<>>,
                                Cardinality(DOMAIN current_hashes(fs)))]
  /\ UNCHANGED index_vars
  /\ UNCHANGED <<config, window_calls, saves, registry_calls, hashes_form, observed,
                 error, parser_cache, session_diff, input>>

\* end_session(project_path) up to its return or, when the diff has
\* changes, up to the first step of index_project(config)
end_session ==
  /\ pc = "idle"
  /\ LET err == _validate_openai(config)
         cd == SessionDiffOf(snapshot_file, fs)
         fl == collect_files(fs)
         d == diff(_load(hashes_form, hashes_file).hashes, fl, fs)
     IN IF err # "None"
          THEN /\ output' = [returned |-> TRUE,
                             value |-> Reply("openai_error", <<>>, <<>>, <<>>, 0)]
               /\ UNCHANGED <<index_vars, session_diff, snapshot_file, error>>
        ELSE IF cd.kind = "none"
          THEN /\ output' = [returned |-> TRUE,
                             value |-> Reply("no_active_session", <<>>, <<>>, <<>>, 0)]
               /\ UNCHANGED <<index_vars, session_diff, snapshot_file, error>>
        ELSE IF cd.kind = "raised"
          THEN /\ output' = [returned |-> TRUE,
                             value |-> Reply("diff_raised", <<>>, <<>>, <<>>, 0)]
               /\ UNCHANGED <<index_vars, session_diff, snapshot_file, error>>
        ELSE IF total_changes(cd.diff) = 0
          THEN /\ snapshot_file' = [form |-> "absent", data |-> << >>]
               /\ output' = [returned |-> TRUE,
                             value |-> Reply("session_ended", cd.diff.modified,
                                             cd.diff.created, cd.diff.deleted, 0)]
               /\ UNCHANGED <<index_vars, session_diff, error>>
        ELSE /\ session_diff' = Returned("compute_diff", "diff", cd.diff.modified,
                                         cd.diff.created, cd.diff.deleted, 0)
             /\ output' = [returned |-> FALSE, value |-> NoReply]
             /\ mode' = "incremental"
             /\ files' = fl
             /\ hashes' = d.hashes
             /\ diff_changed' = d.changed
             /\ diff_deleted' = d.deleted
             /\ diff_hashed' = d.hashed
             /\ todo' = d.changed
             /\ pc' = "purge"
             /\ UNCHANGED <<fs, hashes_file, collection, all_chunks, result, ops,
                            removed, streak, lost, snapshot_file, error>>
  /\ UNCHANGED <<config, window_calls, saves, registry_calls, hashes_form, observed,
                 parser_cache, input>>

\* end_session after index_project has returned, with the snapshot left
\* where it is
EndSessionReturnKeeping ==
  /\ pc = "done"
  /\ output' = [returned |-> TRUE,
                value |-> Reply("session_ended", session_diff.modified,
                                session_diff.created, session_diff.deleted,
                                result.chunks_indexed)]
  /\ session_diff' = NothingReturned
  /\ pc' = "idle"
  /\ ForgetRun
  /\ lost' = {}
  /\ UNCHANGED <<fs, hashes_file, collection, streak, snapshot_file>>
  /\ UNCHANGED <<config, hashes_form, observed, error, parser_cache, input>>

\* end_session after index_project has returned: chunks_reindexed,
\* clear_snapshot(config) and the reply
EndSessionReturn ==
  /\ pc = "done"
  /\ snapshot_file' = [form |-> "absent", data |-> << >>]
  /\ output' = [returned |-> TRUE,
                value |-> Reply("session_ended", session_diff.modified,
                                session_diff.created, session_diff.deleted,
                                result.chunks_indexed)]
  /\ session_diff' = NothingReturned
  /\ pc' = "idle"
  /\ ForgetRun
  /\ lost' = {}
  /\ UNCHANGED <<fs, hashes_file, collection, streak>>
  /\ UNCHANGED <<config, hashes_form, observed, error, parser_cache, input>>

\* index_project raises inside end_session (an embedding or store call
\* fails): the exception leaves end_session
EndSessionIndexRaises ==
  /\ pc \in {"purge", "chunk"}
  /\ output' = [returned |-> TRUE, value |-> Reply("index_raised", <<>>, <<>>, <<>>, 0)]
  /\ session_diff' = NothingReturned
  /\ pc' = "idle"
  /\ ForgetRun
  /\ lost' = {}
  /\ UNCHANGED <<fs, hashes_file, collection, streak, snapshot_file>>
  /\ UNCHANGED <<config, hashes_form, observed, error, parser_cache, input>>

NextEndSession ==
  \/ ProjectEdit
  \/ SnapshotOverwritten
  \/ begin_session
  \/ end_session
  \/ IncrPurge
  \/ IncrChunk
  \/ IncrFinish
  \/ EndSessionReturn
  \/ EndSessionIndexRaises

SpecEndSession == InitEndSession /\ [][NextEndSession]_vars


\* the reply of the call that returned last
Status == output.value.status

\* the session diff end_session gets for the snapshot and the tree as they are
DiffNow == SessionDiff(snapshot_file.data, current_hashes(fs))

\* index_project(config) is entered, incrementally
IndexStarts == pc' = "purge" /\ mode' = "incremental"

\* nothing is indexed and nothing else is touched
NothingDone == pc' = "idle" /\ UNCHANGED <<collection, hashes_file, snapshot_file, fs>>

\* end_session without a snapshot: the error, and nothing done
WithoutSnapshot ==
  (end_session /\ snapshot_file.form = "absent") =>
    (Status' = "no_active_session" /\ NothingDone)

\* end_session with a snapshot: the index runs exactly when the diff has changes
WithSnapshot ==
  (end_session /\ snapshot_file.form = "mapping") =>
    /\ IndexStarts <=> total_changes(DiffNow) > 0
    /\ ~IndexStarts => (Status' = "session_ended" /\ UNCHANGED <<collection, hashes_file>>)

\* end_session right after an end_session that returned session_ended
AfterSessionEnded ==
  (end_session /\ Status = "session_ended") =>
    (Status' = "no_active_session" /\ NothingDone)

\* the index run of end_session fails
IndexFailure ==
  EndSessionIndexRaises => (Status' = "index_raised" /\ UNCHANGED snapshot_file)

\* the provider check of end_session lets the call through
Accepted == _validate_openai(config) = "None"

\* C39 as stated: without a snapshot end_session returns the
\* no-active-session error and indexes nothing; with one it runs an
\* incremental index exactly when the session diff reports a modified,
\* created or deleted file; when it returns session_ended the snapshot is
\* gone, so that an end_session right after it returns the
\* no-active-session error; when the index run fails the snapshot is still
\* there.
C39_EndSessionAsStated ==
  /\ [][WithoutSnapshot]_vars
  /\ [][WithSnapshot]_vars
  /\ [](Status = "session_ended" => snapshot_file.form = "absent")
  /\ [][AfterSessionEnded]_vars
  /\ [](pc \in {"purge", "chunk", "done"} => snapshot_file.form = "mapping")
  /\ [][IndexFailure]_vars
  /\ [](Status = "index_raised" => snapshot_file.form # "absent")

\* C39, amended: end_session first checks the provider, and with the OpenAI
\* provider and no API key it returns that error and does nothing, snapshot
\* or not; with any other configuration it behaves as stated.
C39_EndSessionProtocol ==
  /\ [][(end_session /\ ~Accepted) => (Status' = "openai_error" /\ NothingDone)]_vars
  /\ [][Accepted => WithoutSnapshot]_vars
  /\ [][Accepted => WithSnapshot]_vars
  /\ [](Status = "session_ended" => (Accepted /\ snapshot_file.form = "absent"))
  /\ [][AfterSessionEnded]_vars
  /\ [](pc \in {"purge", "chunk", "done"} => (Accepted /\ snapshot_file.form = "mapping"))
  /\ [][IndexFailure]_vars
  /\ [](Status = "index_raised" => snapshot_file.form # "absent")

\* a session with changes has been ended: the index has run and the snapshot
\* has been cleared
C39_Witness ==
  /\ Status = "session_ended"
  /\ output.value.modified # <<>>
  /\ output.value.count > 0
  /\ snapshot_file.form = "absent"
  /\ collection # {}

====
